---------------------------- MODULE Spec2Model ----------------------------
(***************************************************************************)
(* Model of the sphere ray tracer of the fragment shader raytraceFS        *)
(* (src/unnamed/part_000): IntersectRay, Shade and RayTracer.              *)
(*                                                                         *)
(* A GLSL float is modelled as a fixed-point number: the integer x stands  *)
(* for the real x / SCALE, and every arithmetic operation rounds its exact *)
(* result to the nearest representable value, as a float operation does.   *)
(* A vec3 is a sequence of three such numbers.                             *)
(***************************************************************************)
EXTENDS Integers, Sequences, FiniteSets, TLC

(***************************************************************************)
(* Scalar arithmetic                                                       *)
(***************************************************************************)
\* resolution of the fixed-point numbers: one unit is the 0.001 of the
\* shader's ray offsets
SCALE == 1000

Abs(x) == IF x < 0 THEN -x ELSE x

Max(x, y) == IF x >= y THEN x ELSE y

Min(x, y) == IF x <= y THEN x ELSE y

\* n / d rounded to the nearest integer (d # 0)
RDiv(n, d) ==
    LET nn == IF d < 0 THEN -n ELSE n
        dd == Abs(d)
    IN  (nn + dd \div 2) \div dd

FMul(x, y) == RDiv(x * y, SCALE)

FDiv(x, y) == RDiv(x * SCALE, y)

\* a power of two above the square root of n (0 <= n < 2^31)
SqrtBound(n) ==
    IF n < 1048576
    THEN (IF n < 1024
          THEN (IF n < 16 THEN 4 ELSE IF n < 256 THEN 16 ELSE 32)
          ELSE (IF n < 16384 THEN 128 ELSE IF n < 262144 THEN 512 ELSE 1024))
    ELSE (IF n < 67108864
          THEN (IF n < 4194304 THEN 2048 ELSE IF n < 16777216 THEN 4096 ELSE 8192)
          ELSE (IF n < 268435456 THEN 16384 ELSE IF n < 1073741824 THEN 32768
                ELSE 46341))

\* Newton's iteration from x above the square root of n: the largest s with
\* s * s <= n
RECURSIVE ISqrtFrom(_, _)
ISqrtFrom(n, x) ==
    LET y == (x + n \div x) \div 2
    IN  IF y >= x THEN x ELSE ISqrtFrom(n, y)

\* sqrt(x), rounded to the nearest representable value (x >= 0)
FSqrt(x) ==
    LET n == x * SCALE
        s == IF n = 0 THEN 0 ELSE ISqrtFrom(n, SqrtBound(n))
    IN  IF n - s * s > s THEN s + 1 ELSE s

\* pow(x, n) for x >= 0 and a whole exponent n >= 0 (n in units of 1/SCALE)
RECURSIVE FPow(_, _)
FPow(x, n) == IF n < SCALE THEN SCALE ELSE FMul(x, FPow(x, n - SCALE))

(***************************************************************************)
(* vec3 arithmetic                                                         *)
(***************************************************************************)
VAdd(u, v) == <<u[1] + v[1], u[2] + v[2], u[3] + v[3]>>

VSub(u, v) == <<u[1] - v[1], u[2] - v[2], u[3] - v[3]>>

VNeg(u) == <<-u[1], -u[2], -u[3]>>

\* vec3 * float
VScale(u, s) == <<FMul(u[1], s), FMul(u[2], s), FMul(u[3], s)>>

\* vec3 * vec3 (component-wise)
VMul(u, v) == <<FMul(u[1], v[1]), FMul(u[2], v[2]), FMul(u[3], v[3])>>

Dot(u, v) == FMul(u[1], v[1]) + FMul(u[2], v[2]) + FMul(u[3], v[3])

Length(u) == FSqrt(Dot(u, u))

\* normalize(u) = u / length(u); u is not the zero vector
Normalize(u) ==
    LET l == Length(u)
    IN  <<FDiv(u[1], l), FDiv(u[2], l), FDiv(u[3], l)>>

\* reflect(I, N) = I - 2 * dot(N, I) * N
Reflect(I, N) == VSub(I, VScale(N, 2 * Dot(N, I)))

Zero3 == <<0, 0, 0>>

(***************************************************************************)
(* Scene data (the uniforms) and the values of the model's inputs          *)
(***************************************************************************)
\* a vec3 with whole coordinates
V(x, y, z) == <<x * SCALE, y * SCALE, z * SCALE>>

Material(kd, ks, n) == [k_d |-> kd, k_s |-> ks, n |-> n]

Sphere(c, r, m) == [center |-> c, radius |-> r, mtl |-> m]

Light(p, i) == [position |-> p, intensity |-> i]

Ray(p, d) == [pos |-> p, dir |-> d]

HitInfo(t, p, nrm, m) == [t |-> t, position |-> p, normal |-> nrm, mtl |-> m]

White == V(1, 1, 1)

HalfGrey == <<500, 500, 500>>

MtlRed == Material(V(1, 0, 0), Zero3, SCALE)

MtlRedShiny == Material(V(1, 0, 0), HalfGrey, 2 * SCALE)

MtlMirror == Material(Zero3, White, SCALE)

MtlGreen == Material(V(0, 1, 0), <<500, 250, 0>>, 2 * SCALE)

\* its k_s has no channel in common with that of MtlGreen
MtlBlue == Material(<<0, 0, 500>>, <<0, 0, 1000>>, 3 * SCALE)

\* the six faces of the cube map, each of one colour
EnvFaces ==
    [px |-> <<100, 0, 0>>, nx |-> <<200, 0, 0>>,
     py |-> <<0, 100, 0>>, ny |-> <<0, 200, 0>>,
     pz |-> <<0, 0, 100>>, nz |-> <<0, 0, 200>>]

\* the scenes a draw call may be set up with
Scenes ==
    << \* 1: one red sphere, one light above it
       [spheres |-> <<Sphere(V(0, 0, 0), SCALE, MtlRed)>>,
        lights  |-> <<Light(V(0, 5, 0), White)>>],
       \* 2: the same sphere with a specular material, a second light in front
       [spheres |-> <<Sphere(V(0, 0, 0), SCALE, MtlRedShiny)>>,
        lights  |-> <<Light(V(0, 5, 0), White), Light(V(0, 0, 5), HalfGrey)>>],
       \* 3: a mirror facing a green sphere; a light between them and one
       \*    behind the green sphere
       [spheres |-> <<Sphere(V(0, 0, 0), SCALE, MtlMirror),
                      Sphere(V(0, 0, 6), SCALE, MtlGreen)>>,
        lights  |-> <<Light(V(0, 0, 3), White), Light(V(0, 0, 10), HalfGrey)>>],
       \* 4: scene 3 without the green sphere
       [spheres |-> <<Sphere(V(0, 0, 0), SCALE, MtlMirror)>>,
        lights  |-> <<Light(V(0, 0, 3), White), Light(V(0, 0, 10), HalfGrey)>>],
       \* 5: a large sphere around the origin and a small one next to it,
       \*    whose near side is one ray offset behind the light
       [spheres |-> <<Sphere(V(0, 0, 0), 2 * SCALE, MtlBlue),
                      Sphere(<<0, 0, 5001>>, SCALE, MtlGreen)>>,
        lights  |-> <<Light(V(0, 0, 4), White)>> ],
       \* 6: two overlapping spheres, mirror images of each other in the
       \*    plane x = 0 that holds the primary rays
       [spheres |-> <<Sphere(V(1, 0, 0), 2 * SCALE, MtlRed),
                      Sphere(V(-1, 0, 0), 2 * SCALE, MtlGreen)>>,
        lights  |-> <<Light(V(0, 0, 5), White)>> ],
       \* 7: the sphere of scene 2 with a light just below the tangent plane
       \*    at its point (0,0,1), near enough to it for the shadow ray,
       \*    which starts 0.001 above the surface, to pass over the sphere
       [spheres |-> <<Sphere(V(0, 0, 0), SCALE, MtlRedShiny)>>,
        lights  |-> <<Light(<<0, 5000, 900>>, White)>> ] >>

(***************************************************************************)
(* IntersectRay                                                            *)
(***************************************************************************)
\* the value hit.t is reset to before the scan (1e30): above every distance
\* the model can represent
Sentinel == 2147483647

\* the coefficients of the quadratic of sphere s
QuadA(ray) == Dot(ray.dir, ray.dir)

QuadB(ray, s) == 2 * Dot(VSub(ray.pos, s.center), ray.dir)

QuadC(ray, s) ==
    Dot(VSub(ray.pos, s.center), VSub(ray.pos, s.center))
        - FMul(s.radius, s.radius)

Discriminant(a, b, c) == FMul(b, b) - FMul(4 * a, c)

\* RootT1, were the root divided by a instead of 2a
RootT1OverA(a, b, sqrt_discriminant) == FDiv(-b - sqrt_discriminant, a)

\* the near and the far root (a # 0)
RootT1(a, b, sqrt_discriminant) == FDiv(-b - sqrt_discriminant, 2 * a)

RootT2(a, b, sqrt_discriminant) == FDiv(-b + sqrt_discriminant, 2 * a)

\* CandidateT, were the near root taken whatever its sign
CandidateNear(t1, t2) == t1

\* the closest positive intersection, if there is one
CandidateT(t1, t2) == IF t1 > 0 THEN t1 ELSE t2

\* Closer, were the candidate not compared with the hit found so far
CloserAny(t, best) == t > 0

\* Closer, were a candidate at the distance of the hit found so far taken
CloserOrEqual(t, best) == t > 0 /\ t <= best

\* whether a candidate replaces the hit found so far
Closer(t, best) == t > 0 /\ t < best

\* IntersectSphere, were the material recorded only for the first candidate
\* accepted
IntersectSphereFirstMtl(acc, ray, s) ==
    LET a == QuadA(ray)
        b == QuadB(ray, s)
        c == QuadC(ray, s)
        discriminant == Discriminant(a, b, c)
        sqrt_discriminant == FSqrt(discriminant)
        t1 == RootT1(a, b, sqrt_discriminant)
        t2 == RootT2(a, b, sqrt_discriminant)
        t == CandidateT(t1, t2)
        position == VAdd(ray.pos, VScale(ray.dir, t))
        fromCenter == VSub(position, s.center)
    IN  IF ~acc.ok \/ discriminant < 0 THEN acc
        ELSE IF a = 0 THEN [acc EXCEPT !.ok = FALSE]
        ELSE IF ~Closer(t, acc.hit.t) THEN acc
        ELSE IF Length(fromCenter) = 0 THEN [acc EXCEPT !.ok = FALSE]
        ELSE [found |-> TRUE,
              hit   |-> [t |-> t, position |-> position,
                         normal |-> Normalize(fromCenter),
                         mtl |-> IF acc.found THEN acc.hit.mtl ELSE s.mtl],
              ok    |-> TRUE]

\* one iteration of the loop over the spheres. acc.found and acc.hit are
\* foundHit and hit; acc.ok is FALSE once an iteration has divided by zero
\* (in a root, when a = 0, or in the normal, when the hit position is the
\* centre), and the other fields then mean nothing
IntersectSphere(acc, ray, s) ==
    LET a == QuadA(ray)
        b == QuadB(ray, s)
        c == QuadC(ray, s)
        discriminant == Discriminant(a, b, c)
        sqrt_discriminant == FSqrt(discriminant)
        t1 == RootT1(a, b, sqrt_discriminant)
        t2 == RootT2(a, b, sqrt_discriminant)
        t == CandidateT(t1, t2)
        position == VAdd(ray.pos, VScale(ray.dir, t))
        fromCenter == VSub(position, s.center)
    IN  IF ~acc.ok \/ discriminant < 0 THEN acc
        ELSE IF a = 0 THEN [acc EXCEPT !.ok = FALSE]
        ELSE IF ~Closer(t, acc.hit.t) THEN acc
        ELSE IF Length(fromCenter) = 0 THEN [acc EXCEPT !.ok = FALSE]
        ELSE [found |-> TRUE,
              hit   |-> [t |-> t, position |-> position,
                         normal |-> Normalize(fromCenter), mtl |-> s.mtl],
              ok    |-> TRUE]

RECURSIVE IntersectFrom(_, _, _, _)
IntersectFrom(acc, ray, sph, i) ==
    IF i > Len(sph) THEN acc
    ELSE IntersectFrom(IntersectSphere(acc, ray, sph[i]), ray, sph, i + 1)

\* ResetHit, were hit.t left as passed in
ResetHitKeep(hit) == hit

\* ResetHit, were every field reset
ResetHitAll(hit) ==
    [t |-> Sentinel, position |-> Zero3, normal |-> Zero3,
     mtl |-> Material(Zero3, Zero3, 0)]

\* the value hit holds when the scan starts
ResetHit(hit) == [hit EXCEPT !.t = Sentinel]

\* IntersectRay(hit, ray) over the spheres sph: what it returns (found) and
\* what it leaves in its inout argument (hit)
IntersectRay(sph, hit, ray) ==
    IntersectFrom([found |-> FALSE, hit |-> ResetHit(hit), ok |-> TRUE],
                  ray, sph, 1)

(***************************************************************************)
(* Shade                                                                   *)
(***************************************************************************)
\* the 0.001 of the ray offsets
Offset == SCALE \div 1000

\* the shadow ray of a light whose direction from the point is lightDir
ShadowRay(position, normal, lightDir) ==
    Ray(VAdd(position, VScale(normal, Offset)), lightDir)

\* InShadow, were a hit at the light's distance taken as a shadow
InShadowOrAt(inShadow, t, distanceToLight) == inShadow /\ t <= distanceToLight

\* InShadow, were the comparison the other way round
InShadowBeyond(inShadow, t, distanceToLight) == inShadow /\ t > distanceToLight

\* the test that skips a light
InShadow(inShadow, t, distanceToLight) == inShadow /\ t < distanceToLight

\* LightTerm, were each channel clamped to 1
LightTermClamped(light, mtl, normal, lightDir, halfVector) ==
    LET NdotL    == Max(Dot(normal, lightDir), 0)
        diffuse  == VScale(VMul(mtl.k_d, light.intensity), NdotL)
        NdotH    == Max(Dot(normal, halfVector), 0)
        specular == VScale(VMul(mtl.k_s, light.intensity), FPow(NdotH, mtl.n))
        sum      == VAdd(diffuse, specular)
    IN  <<Min(sum[1], SCALE), Min(sum[2], SCALE), Min(sum[3], SCALE)>>

\* diffuse + specular of one light (Blinn)
LightTerm(light, mtl, normal, lightDir, halfVector) ==
    LET NdotL    == Max(Dot(normal, lightDir), 0)
        diffuse  == VScale(VMul(mtl.k_d, light.intensity), NdotL)
        NdotH    == Max(Dot(normal, halfVector), 0)
        specular == VScale(VMul(mtl.k_s, light.intensity), FPow(NdotH, mtl.n))
    IN  VAdd(diffuse, specular)

\* the iteration of the loop over the lights for lts[i]. acc.color is color;
\* acc.skipped are the lights skipped so far; acc.ok is FALSE once an
\* iteration has divided by zero (the light is at the shaded point, the
\* shadow query divides by zero, or the half vector is zero), and color then
\* means nothing. g is what the uninitialized shadowHit holds
ShadeLight(acc, sph, lts, i, mtl, position, normal, view, g) ==
    LET toLight == VSub(lts[i].position, position)
        distanceToLight == Length(toLight)
        lightDir == Normalize(toLight)
        shadow == IntersectRay(sph, g, ShadowRay(position, normal, lightDir))
        sum == VAdd(lightDir, view)
    IN  IF ~acc.ok THEN acc
        ELSE IF distanceToLight = 0 \/ ~shadow.ok THEN [acc EXCEPT !.ok = FALSE]
        ELSE IF InShadow(shadow.found, shadow.hit.t, distanceToLight)
        THEN [acc EXCEPT !.skipped = @ \cup {i}]
        ELSE IF Length(sum) = 0 THEN [acc EXCEPT !.ok = FALSE]
        ELSE [acc EXCEPT !.color =
                  VAdd(@, LightTerm(lts[i], mtl, normal, lightDir, Normalize(sum)))]

RECURSIVE ShadeFrom(_, _, _, _, _, _, _, _, _)
ShadeFrom(acc, sph, lts, i, mtl, position, normal, view, g) ==
    IF i > Len(lts) THEN acc
    ELSE ShadeFrom(ShadeLight(acc, sph, lts, i, mtl, position, normal, view, g),
                   sph, lts, i + 1, mtl, position, normal, view, g)

\* Shade( mtl, position, normal, view ) over the spheres sph and lights lts
Shade(sph, lts, mtl, position, normal, view, g) ==
    ShadeFrom([color |-> Zero3, skipped |-> {}, ok |-> TRUE],
              sph, lts, 1, mtl, position, normal, view, g)

(***************************************************************************)
(* The environment map                                                     *)
(***************************************************************************)
\* the face of the cube map a direction selects (its major axis)
CubeFace(v) ==
    IF Abs(v[1]) >= Abs(v[2]) /\ Abs(v[1]) >= Abs(v[3])
    THEN (IF v[1] >= 0 THEN "px" ELSE "nx")
    ELSE IF Abs(v[2]) >= Abs(v[3])
         THEN (IF v[2] >= 0 THEN "py" ELSE "ny")
         ELSE (IF v[3] >= 0 THEN "pz" ELSE "nz")

\* textureCube( envMap, dir.xzy ).rgb
EnvColor(env, dir) == env[CubeFace(<<dir[1], dir[3], dir[2]>>)]

(***************************************************************************)
(* RayTracer: one evaluation per fragment of a draw call                   *)
(***************************************************************************)
\* the bound of the reflection loop
MAX_BOUNCES == 2

\* the largest value the bounceLimit uniform is given
MaxBounceLimit == 3

BounceLimits == (-1)..MaxBounceLimit

\* where the rays remembered for a later comparison start
Eye == V(0, 0, 3)

Origins == {V(0, 0, 5), Eye, V(0, 0, 0), V(0, 1, 0), V(0, 3, 4)}

Dirs ==
    {V(0, 0, -1), V(0, 0, -2), V(0, 0, 1), V(0, 1, 0),
     <<0, -600, -800>>, <<0, -1200, -1600>>, V(0, -1, -1), Zero3}

\* the primary rays of the fragments
Rays == {Ray(o, d) : o \in Origins, d \in Dirs}

\* what an uninitialized HitInfo may hold
Garbage ==
    {HitInfo(0, Zero3, Zero3, MtlRed),
     HitInfo(5 * SCALE, V(1, 2, 3), V(0, 1, 0), MtlMirror)}

\* what a colour computed from a division by zero may be
UndefinedColors == {Zero3, V(-9, 0, 9)}

NoRay == Ray(Zero3, Zero3)

NoHit == HitInfo(0, Zero3, Zero3, Material(Zero3, Zero3, 0))

NoColor == <<0, 0, 0, 0>>

NoSeen == [ray |-> NoRay, out |-> NoColor]

VARIABLES
    scene,        \* which of Scenes the uniforms hold
    bounceLimit,  \* uniform int bounceLimit
    pc,           \* "idle", "bouncing" (in the reflection loop) or "done"
    primary,      \* the ray RayTracer was called with
    ray,          \* RayTracer's parameter ray (overwritten in the loop)
    hit,          \* RayTracer's hit
    clr,          \* RayTracer's clr
    k_s,          \* RayTracer's k_s
    bounce,       \* the loop variable
    out,          \* the vec4 returned
    exit,         \* where the evaluation left: "miss", "max", "limit",
                  \* "absorbed", "escaped", "undefined" ("none" while it runs)
    nrays,        \* reflection rays intersected in this evaluation
    path,         \* the materials of the surfaces hit in this evaluation
    shaded,       \* what the latest call of Shade returned
    skipped,      \* the lights the latest call of Shade skipped
    defined,      \* no call of Shade in this evaluation divided by zero
    seen          \* an earlier evaluation: its ray and what it returned

\* the state of a call of composite (src/unnamed/part_003)
VARIABLES
    bgImg,        \* the background image, modified in place
    fgImg,        \* the foreground image
    fgOpac,       \* the opacity, in units of 1 / OpacDen
    fgPos,        \* the position of the foreground: [x, y]
    cpc,          \* "idle", "loop" (in the loops), "returned" or "thrown"
    fgY,          \* the loop variable of the outer loop
    fgX,          \* the loop variable of the inner loop
    thrown,       \* the message of the Error thrown ("" if none)
    bgBefore,     \* bgImg when composite was called
    reads,        \* the elements read in this call: <<"bg" or "fg", index>>
    writes        \* the elements written in this call

\* the state of a call of ApplyTransform (src/homework_2/project2.js)
VARIABLES
    trans1,       \* its first argument
    trans2,       \* its second argument
    trans         \* what the last call returned

\* the state of an AnimalSystem (src/unnamed/part_002)
VARIABLES
    wolfModelTemplate, \* "undefined" while loadWolfModel is pending (the
                       \* constructor does not assign it), then "template",
                       \* or "null" if the load failed
    animals,           \* this.animals: a sequence of [id, age]
    sceneMeshes,       \* the ids of the animals whose mesh is in this.scene
    enabled,           \* this.enabled
    spawningPaused,    \* this.spawningPaused
    howls,             \* the animateHowl callbacks that wait for a frame, in
                       \* the order they were requested: [howlFrame, before],
                       \* before being this.enabled when the howl was started
    called             \* the latest call: what it was, how it ended, the
                       \* animals update processed, in order, and those
                       \* that died of age

\* the weather system of a PlanetaryExplorer (src/unnamed/part_001)
VARIABLES
    rainIntensity,        \* weatherSystem.rainIntensity, in hundredths
    targetRainIntensity,  \* weatherSystem.targetRainIntensity, in hundredths
    puddles,              \* weatherSystem.puddles: a sequence of [id,
                          \* lifetime, evaporating, steps], steps being the
                          \* calls of updatePuddles since evaporating is true
    puddleMeshes          \* the ids of the puddles whose mesh is in the scene

tracerVars ==
    <<scene, bounceLimit, pc, primary, ray, hit, clr, k_s, bounce, out, exit,
      nrays, path, shaded, skipped, defined, seen>>

compositeVars ==
    <<bgImg, fgImg, fgOpac, fgPos, cpc, fgY, fgX, thrown, bgBefore, reads,
      writes>>

transformVars == <<trans1, trans2, trans>>

animalVars ==
    <<wolfModelTemplate, animals, sceneMeshes, enabled, spawningPaused, howls,
      called>>

puddleVars == <<rainIntensity, targetRainIntensity, puddles, puddleMeshes>>

vars == <<tracerVars, compositeVars, transformVars, animalVars, puddleVars>>

\* an image object: missing holds the properties it lacks; obj is FALSE
\* for null or undefined in place of the object
Image(w, h, d) ==
    [obj |-> TRUE, missing |-> {}, width |-> w, height |-> h, data |-> d]

NullImage ==
    [obj |-> FALSE, missing |-> {"data", "width", "height"}, width |-> 0,
     height |-> 0, data |-> <<>>]

Identity == <<1, 0, 0, 0, 1, 0, 0, 0, 1>>

\* no call of composite is under way
CompositeIdle ==
    /\ bgImg = NullImage
    /\ fgImg = NullImage
    /\ fgOpac = 0
    /\ fgPos = [x |-> 0, y |-> 0]
    /\ cpc = "idle"
    /\ fgY = 0
    /\ fgX = 0
    /\ thrown = ""
    /\ bgBefore = NullImage
    /\ reads = {}
    /\ writes = {}

\* no call of ApplyTransform was made
TransformIdle ==
    /\ trans1 = Identity
    /\ trans2 = Identity
    /\ trans = Identity

NoCall == [op |-> "none", result |-> "none", processed |-> <<>>, aged |-> {}]

\* an AnimalSystem as its constructor leaves it, the load of the wolf model
\* pending
AnimalIdle ==
    /\ wolfModelTemplate = "undefined"
    /\ animals = <<>>
    /\ sceneMeshes = {}
    /\ enabled = TRUE
    /\ spawningPaused = FALSE
    /\ howls = <<>>
    /\ called = NoCall

\* the weather system as the constructor of PlanetaryExplorer leaves it
PuddleIdle ==
    /\ rainIntensity = 0
    /\ targetRainIntensity = 0
    /\ puddles = <<>>
    /\ puddleMeshes = {}

spheres == Scenes[scene].spheres

lights == Scenes[scene].lights

envMap == EnvFaces

Vec4(rgb, a) == <<rgb[1], rgb[2], rgb[3], a>>

Init ==
    /\ scene \in 1..Len(Scenes)
    /\ bounceLimit \in BounceLimits
    /\ pc = "idle"
    /\ primary = NoRay
    /\ ray = NoRay
    /\ hit = NoHit
    /\ clr = Zero3
    /\ k_s = Zero3
    /\ bounce = 0
    /\ out = NoColor
    /\ exit = "none"
    /\ nrays = 0
    /\ path = <<>>
    /\ shaded = Zero3
    /\ skipped = {}
    /\ defined = TRUE
    /\ seen = NoSeen
    /\ CompositeIdle
    /\ TransformIdle
    /\ AnimalIdle
    /\ PuddleIdle

\* the colours a call of Shade that ended as sh may return
ShadeColors(sh) == IF sh.ok THEN {sh.color} ELSE UndefinedColors

\* the evaluation divided by zero outside Shade: what it returns is anything
ReturnUndefined ==
    /\ \E c \in UndefinedColors, a \in {0, SCALE} : out' = Vec4(c, a)
    /\ pc' = "done"
    /\ exit' = "undefined"
    /\ defined' = FALSE

\* RayTracer( r ) up to the reflection loop; g is what the uninitialized
\* locals hold
Trace(r, g) ==
    /\ pc = "idle"
    /\ primary' = r
    /\ ray' = r
    /\ nrays' = 0
    /\ bounce' = 0
    /\ LET res == IntersectRay(spheres, g, r)
       IN  IF ~res.ok
           THEN /\ ReturnUndefined
                /\ UNCHANGED <<hit, clr, shaded, skipped, k_s, path>>
           ELSE IF res.found
           THEN LET view == Normalize(VNeg(r.dir))
                    sh   == Shade(spheres, lights, res.hit.mtl,
                                  res.hit.position, res.hit.normal, view, g)
                IN  /\ hit' = res.hit
                    /\ \E c \in ShadeColors(sh) :
                           /\ clr' = c
                           /\ shaded' = c
                    /\ defined' = sh.ok
                    /\ skipped' = sh.skipped
                    /\ k_s' = res.hit.mtl.k_s
                    /\ path' = <<res.hit.mtl>>
                    /\ pc' = "bouncing"
                    /\ exit' = "none"
                    /\ out' = NoColor
           ELSE /\ hit' = res.hit
                /\ out' = Vec4(EnvColor(envMap, r.dir), 0)
                /\ pc' = "done"
                /\ exit' = "miss"
                /\ defined' = TRUE
                /\ UNCHANGED <<clr, shaded, skipped, k_s, path>>
    /\ UNCHANGED <<scene, bounceLimit, seen>>
    /\ UNCHANGED <<compositeVars, transformVars, animalVars, puddleVars>>

\* ReturnClr, were alpha 0 returned
ReturnClrAlphaZero(c, why) ==
    /\ out' = Vec4(c, 0)
    /\ pc' = "done"
    /\ exit' = why

\* ReturnClr, were the loop not left
ReturnClrAndGoOn(c, why) ==
    /\ out' = Vec4(c, SCALE)
    /\ pc' = "bouncing"
    /\ exit' = why

\* clr is returned with alpha 1
ReturnClr(c, why) ==
    /\ out' = Vec4(c, SCALE)
    /\ pc' = "done"
    /\ exit' = why

\* the reflection ray of the current hit
ReflectionRay(h, incoming) ==
    Ray(VAdd(h.position, VScale(h.normal, Offset)),
        Reflect(incoming.dir, h.normal))

\* MaxReached and LimitReached, were the comparisons strict
MaxReachedLate(b) == b > MAX_BOUNCES

LimitReachedLate(b, limit) == b > limit

\* Attenuate, were k_s replaced instead of multiplied
AttenuateReplace(ks, h) == h.mtl.k_s

\* the two tests on the loop variable
MaxReached(b) == b >= MAX_BOUNCES

LimitReached(b, limit) == b >= limit

\* Accumulate, were the colour added without the attenuation
AccumulateUnscaled(c, ks, reflectedColor) == VAdd(c, reflectedColor)

\* clr += k_s * reflectedColor
Accumulate(c, ks, reflectedColor) == VAdd(c, VMul(ks, reflectedColor))

\* k_s *= h.mtl.k_s
Attenuate(ks, h) == VMul(ks, h.mtl.k_s)

\* Absorbed, were the loop never ended for want of specular energy
AbsorbedNever(h, ks) == FALSE

\* the test that ends the loop for want of specular energy
Absorbed(h, ks) == h.mtl.k_s[1] + h.mtl.k_s[2] + h.mtl.k_s[3] <= 0

\* one iteration of the reflection loop (or its end)
Bounce(g) ==
    /\ pc = "bouncing"
    /\ IF MaxReached(bounce)
       THEN /\ ReturnClr(clr, "max")
            /\ UNCHANGED <<ray, hit, clr, k_s, bounce, nrays, path, shaded,
                           skipped, defined>>
       ELSE IF LimitReached(bounce, bounceLimit)
       THEN /\ ReturnClr(clr, "limit")
            /\ UNCHANGED <<ray, hit, clr, k_s, bounce, nrays, path, shaded,
                           skipped, defined>>
       ELSE IF Absorbed(hit, k_s)
       THEN /\ ReturnClr(clr, "absorbed")
            /\ UNCHANGED <<ray, hit, clr, k_s, bounce, nrays, path, shaded,
                           skipped, defined>>
       ELSE LET r   == ReflectionRay(hit, ray)
                res == IntersectRay(spheres, g, r)
                h   == res.hit
            IN  /\ nrays' = nrays + 1
                /\ IF ~res.ok
                   THEN /\ ReturnUndefined
                        /\ UNCHANGED <<ray, hit, clr, k_s, bounce, path,
                                       shaded, skipped>>
                   ELSE IF res.found
                   THEN LET reflectedView == Normalize(VNeg(r.dir))
                            sh == Shade(spheres, lights, h.mtl, h.position,
                                        h.normal, reflectedView, g)
                        IN  /\ \E reflectedColor \in ShadeColors(sh) :
                                   /\ clr' = Accumulate(clr, k_s, reflectedColor)
                                   /\ shaded' = reflectedColor
                            /\ defined' = (defined /\ sh.ok)
                            /\ skipped' = sh.skipped
                            /\ ray' = r
                            /\ hit' = h
                            /\ k_s' = Attenuate(k_s, h)
                            /\ path' = Append(path, h.mtl)
                            /\ bounce' = bounce + 1
                            /\ UNCHANGED <<pc, out, exit>>
                   ELSE LET c == Accumulate(clr, k_s, EnvColor(envMap, r.dir))
                        IN  /\ clr' = c
                            /\ ReturnClr(c, "escaped")
                            /\ UNCHANGED <<ray, hit, k_s, bounce, path, shaded,
                                           skipped, defined>>
    /\ UNCHANGED <<scene, bounceLimit, primary, seen>>
    /\ UNCHANGED <<compositeVars, transformVars, animalVars, puddleVars>>

\* the fragment is finished and the next one starts from fresh locals; its
\* ray and result may be the ones remembered
Finish(keep) ==
    /\ pc = "done"
    /\ keep => (primary.pos = Eye /\ defined)
    /\ pc' = "idle"
    /\ seen' = IF keep THEN [ray |-> primary, out |-> out] ELSE seen
    /\ primary' = NoRay
    /\ ray' = NoRay
    /\ hit' = NoHit
    /\ clr' = Zero3
    /\ k_s' = Zero3
    /\ bounce' = 0
    /\ out' = NoColor
    /\ exit' = "none"
    /\ nrays' = 0
    /\ path' = <<>>
    /\ shaded' = Zero3
    /\ skipped' = {}
    /\ defined' = TRUE
    /\ UNCHANGED <<scene, bounceLimit>>
    /\ UNCHANGED <<compositeVars, transformVars, animalVars, puddleVars>>

Next ==
    \/ \E r \in Rays, g \in Garbage : Trace(r, g)
    \/ \E g \in Garbage : Bounce(g)
    \/ \E keep \in BOOLEAN : Finish(keep)

Spec == Init /\ [][Next]_vars

\* the shader runs the reflection loop it has entered: an evaluation that is
\* in the loop goes on to its next iteration. This is weak fairness of
\* Bounce, with its enabling condition, pc = "bouncing", written out
LoopFairness ==
    \/ []<>(pc # "bouncing")
    \/ []<><<\E g \in Garbage : Bounce(g)>>_vars

FairSpec == Spec /\ LoopFairness

(***************************************************************************)
(* composite (src/unnamed/part_003): alpha blending of a foreground image  *)
(* onto a background image. A data array is a sequence of bytes, element k *)
(* of the array being element k + 1 of the sequence. An opacity or alpha   *)
(* between 0 and 1 is an exact fraction.                                   *)
(***************************************************************************)
\* fgOpac is a whole number of 1 / OpacDen
OpacDen == 4

\* the value 1 of fgAlpha, which is in units of 1 / (255 * OpacDen)
One == 255 * OpacDen

\* the largest distance fgPos moves the foreground, either way
MaxShift == 3

Pixel(r, g, b, a) == <<r, g, b, a>>

Bg2x2 ==
    Image(2, 2, Pixel(10, 20, 30, 255) \o Pixel(40, 50, 60, 128)
                \o Pixel(70, 80, 90, 0) \o Pixel(100, 110, 120, 255))

Bg3x1 ==
    Image(3, 1, Pixel(0, 0, 0, 255) \o Pixel(255, 255, 255, 64)
                \o Pixel(9, 8, 7, 0))

\* the bgImg arguments: two images, and what is not a valid image
Backgrounds ==
    {Bg2x2, Bg3x1, NullImage,
     [Bg2x2 EXCEPT !.missing = {"data"}],
     [Bg2x2 EXCEPT !.missing = {"width"}],
     [Bg2x2 EXCEPT !.missing = {"height"}],
     Image(0, 2, <<>>), Image(2, 0, <<>>)}

Fg1x1 == Image(1, 1, Pixel(200, 100, 50, 255))

Fg2x2 ==
    Image(2, 2, Pixel(255, 0, 0, 255) \o Pixel(0, 255, 0, 128)
                \o Pixel(0, 0, 255, 0) \o Pixel(33, 66, 99, 51))

Fg1x3 ==
    Image(1, 3, Pixel(1, 2, 3, 255) \o Pixel(4, 5, 6, 1)
                \o Pixel(250, 251, 252, 254))

Foregrounds == {Fg1x1, Fg2x2, Fg1x3, NullImage}

Opacities == {0, OpacDen \div 2, OpacDen}

Positions == [x : (-MaxShift)..MaxShift, y : (-MaxShift)..MaxShift]

\* the value of img.prop taken as a condition
Truthy(img, prop) ==
    /\ prop \notin img.missing
    /\ prop = "width" => img.width # 0
    /\ prop = "height" => img.height # 0

\* ValidBackground, were the width and the height not tested
ValidBackgroundUnsized(bg) == bg.obj /\ Truthy(bg, "data")

\* the test of the first statement
ValidBackground(bg) ==
    bg.obj /\ Truthy(bg, "data") /\ Truthy(bg, "width") /\ Truthy(bg, "height")

\* FgAlpha, were the alpha of the foreground pixel left out
FgAlphaOpacOnly(a, opac) == 255 * opac

\* (a / 255) * fgOpac
FgAlpha(a, opac) == a * opac

\* fgAlpha + bgAlpha * (1 - fgAlpha), in units of 1 / (255 * One); ba is
\* the background's alpha byte
OutAlpha(fa, ba) == 255 * fa + ba * (One - fa)

\* Math.round(n / d) for n >= 0 and d > 0
Round(n, d) == (2 * n + d) \div (2 * d)

\* BlendChannel, were the sum not divided by outAlpha
BlendChannelPremultiplied(fc, bc, fa, ba) ==
    Round(255 * fc * fa + bc * ba * (One - fa), 255 * One)

\* Math.round((fg * fgAlpha + bg * bgAlpha * (1 - fgAlpha)) / outAlpha)
BlendChannel(fc, bc, fa, ba) ==
    Round(255 * fc * fa + bc * ba * (One - fa), OutAlpha(fa, ba))

\* Math.round(outAlpha * 255)
BlendAlpha(fa, ba) == Round(OutAlpha(fa, ba), One)

\* BgIndex, were the columns counted from the right
BgIndexMirrored(bgX, bgY) == (bgY * bgImg.width + (bgImg.width - 1 - bgX)) * 4

\* the indices of the two pixels
BgIndex(bgX, bgY) == (bgY * bgImg.width + bgX) * 4

FgIndex(x, y) == (y * fgImg.width + x) * 4

\* the body of the inner loop for the foreground pixel at fgIndex and the
\* background pixel at bgIndex: the data it leaves in bgImg and the
\* elements it reads and writes
Blend(bg, fg, opac, bgIndex, fgIndex) ==
    LET fgAlpha  == FgAlpha(fg[fgIndex + 4], opac)
        bgAlpha  == bg[bgIndex + 4]
        outAlpha == OutAlpha(fgAlpha, bgAlpha)
        rgb      == {0, 1, 2}
        rgba     == {0, 1, 2, 3}
    IN  IF fgAlpha = 0
        THEN [data |-> bg, reads |-> {<<"fg", fgIndex + 3>>}, writes |-> {}]
        ELSE IF fgAlpha = One
        THEN [data   |-> [k \in 1..Len(bg) |->
                            IF k - 1 - bgIndex \in rgb
                            THEN fg[fgIndex + (k - bgIndex)]
                            ELSE IF k - 1 = bgIndex + 3 THEN 255 ELSE bg[k]],
              reads  |-> {<<"fg", fgIndex + c>> : c \in rgba},
              writes |-> {<<"bg", bgIndex + c>> : c \in rgba}]
        ELSE IF outAlpha > 0
        THEN [data   |-> [k \in 1..Len(bg) |->
                            IF k - 1 - bgIndex \in rgb
                            THEN BlendChannel(fg[fgIndex + (k - bgIndex)],
                                              bg[k], fgAlpha, bgAlpha)
                            ELSE IF k - 1 = bgIndex + 3
                                 THEN BlendAlpha(fgAlpha, bgAlpha)
                                 ELSE bg[k]],
              reads  |-> {<<"fg", fgIndex + c>> : c \in rgba}
                            \cup {<<"bg", bgIndex + c>> : c \in rgba},
              writes |-> {<<"bg", bgIndex + c>> : c \in rgba}]
        ELSE [data   |-> bg,
              reads  |-> {<<"fg", fgIndex + 3>>, <<"bg", bgIndex + 3>>},
              writes |-> {}]

\* composite(bg, fg, opac, pos) up to the loops
composite(bg, fg, opac, pos) ==
    /\ cpc = "idle"
    /\ bgImg' = bg
    /\ bgBefore' = bg
    /\ fgImg' = fg
    /\ fgOpac' = opac
    /\ fgPos' = pos
    /\ fgY' = 0
    /\ fgX' = 0
    /\ reads' = {}
    /\ writes' = {}
    /\ IF ~ValidBackground(bg)
       THEN cpc' = "thrown" /\ thrown' = "Invalid background image"
       ELSE IF opac = 0
       THEN cpc' = "returned" /\ thrown' = ""
       ELSE IF ~fg.obj
       THEN cpc' = "thrown" /\ thrown' = "TypeError"
       ELSE cpc' = "loop" /\ thrown' = ""
    /\ UNCHANGED <<tracerVars, transformVars, animalVars, puddleVars>>

\* one iteration of the inner loop, or one step of the outer loop around it
compositeStep ==
    /\ cpc = "loop"
    /\ LET bgY == fgY + fgPos.y
           bgX == fgX + fgPos.x
       IN  IF fgY >= fgImg.height
           THEN /\ cpc' = "returned"
                /\ UNCHANGED <<bgImg, fgY, fgX, reads, writes>>
           ELSE IF bgY < 0 \/ bgY >= bgImg.height \/ fgX >= fgImg.width
           THEN /\ fgY' = fgY + 1
                /\ fgX' = 0
                /\ UNCHANGED <<bgImg, cpc, reads, writes>>
           ELSE IF bgX < 0 \/ bgX >= bgImg.width
           THEN /\ fgX' = fgX + 1
                /\ UNCHANGED <<bgImg, cpc, fgY, reads, writes>>
           ELSE LET b == Blend(bgImg.data, fgImg.data, fgOpac,
                               BgIndex(bgX, bgY), FgIndex(fgX, fgY))
                IN  /\ bgImg' = [bgImg EXCEPT !.data = b.data]
                    /\ reads' = reads \cup b.reads
                    /\ writes' = writes \cup b.writes
                    /\ fgX' = fgX + 1
                    /\ UNCHANGED <<cpc, fgY>>
    /\ UNCHANGED <<fgImg, fgOpac, fgPos, thrown, bgBefore>>
    /\ UNCHANGED <<tracerVars, transformVars, animalVars, puddleVars>>

\* the call is over; the next one starts from other arguments
compositeEnd ==
    /\ cpc \in {"returned", "thrown"}
    /\ bgImg' = NullImage
    /\ fgImg' = NullImage
    /\ fgOpac' = 0
    /\ fgPos' = [x |-> 0, y |-> 0]
    /\ cpc' = "idle"
    /\ fgY' = 0
    /\ fgX' = 0
    /\ thrown' = ""
    /\ bgBefore' = NullImage
    /\ reads' = {}
    /\ writes' = {}
    /\ UNCHANGED <<tracerVars, transformVars, animalVars, puddleVars>>

\* the ray tracer at rest, as it is while images are composited
TracerIdle ==
    /\ scene = 1
    /\ bounceLimit = 0
    /\ pc = "idle"
    /\ primary = NoRay
    /\ ray = NoRay
    /\ hit = NoHit
    /\ clr = Zero3
    /\ k_s = Zero3
    /\ bounce = 0
    /\ out = NoColor
    /\ exit = "none"
    /\ nrays = 0
    /\ path = <<>>
    /\ shaded = Zero3
    /\ skipped = {}
    /\ defined = TRUE
    /\ seen = NoSeen

CompositeInit ==
    TracerIdle /\ CompositeIdle /\ TransformIdle /\ AnimalIdle /\ PuddleIdle

CompositeNext ==
    \/ \E bg \in Backgrounds, fg \in Foregrounds, opac \in Opacities,
          pos \in Positions : composite(bg, fg, opac, pos)
    \/ compositeStep
    \/ compositeEnd

CompositeSpec == CompositeInit /\ [][CompositeNext]_vars

(***************************************************************************)
(* ApplyTransform (src/homework_2/project2.js): a 3x3 matrix is an array   *)
(* of 9 numbers in column-major order, element k of the array being        *)
(* element k + 1 of the sequence. The numbers are integers, on which the   *)
(* arithmetic of JavaScript numbers is exact.                              *)
(***************************************************************************)
\* ApplyTransform, were the product taken the other way round
ApplyTransformSwapped(t1, t2) ==
    <<t1[1] * t2[1] + t1[4] * t2[2] + t1[7] * t2[3],
      t1[2] * t2[1] + t1[5] * t2[2] + t1[8] * t2[3],
      t1[3] * t2[1] + t1[6] * t2[2] + t1[9] * t2[3],
      t1[1] * t2[4] + t1[4] * t2[5] + t1[7] * t2[6],
      t1[2] * t2[4] + t1[5] * t2[5] + t1[8] * t2[6],
      t1[3] * t2[4] + t1[6] * t2[5] + t1[9] * t2[6],
      t1[1] * t2[7] + t1[4] * t2[8] + t1[7] * t2[9],
      t1[2] * t2[7] + t1[5] * t2[8] + t1[8] * t2[9],
      t1[3] * t2[7] + t1[6] * t2[8] + t1[9] * t2[9]>>

ApplyTransform(t1, t2) ==
    <<t2[1] * t1[1] + t2[4] * t1[2] + t2[7] * t1[3],
      t2[2] * t1[1] + t2[5] * t1[2] + t2[8] * t1[3],
      t2[3] * t1[1] + t2[6] * t1[2] + t2[9] * t1[3],
      t2[1] * t1[4] + t2[4] * t1[5] + t2[7] * t1[6],
      t2[2] * t1[4] + t2[5] * t1[5] + t2[8] * t1[6],
      t2[3] * t1[4] + t2[6] * t1[5] + t2[9] * t1[6],
      t2[1] * t1[7] + t2[4] * t1[8] + t2[7] * t1[9],
      t2[2] * t1[7] + t2[5] * t1[8] + t2[8] * t1[9],
      t2[3] * t1[7] + t2[6] * t1[8] + t2[9] * t1[9]>>

\* the largest absolute value of an element of a matrix passed on
MaxEntry == 4

\* the matrices the calls start from: a translation, a quarter turn, a
\* scaling, a shear, a projective matrix, a singular one, a reflection, a
\* permutation of the axes and the identity
Matrices ==
    {Identity,
     <<1, 0, 0, 0, 1, 0, 2, -1, 1>>,
     <<0, 1, 0, -1, 0, 0, 0, 0, 1>>,
     <<2, 0, 0, 0, 2, 0, 0, 0, 1>>,
     <<1, 0, 0, 1, 1, 0, 0, 0, 1>>,
     <<1, 2, 1, 0, 1, -1, 1, 0, 2>>,
     <<1, 1, 0, 1, 1, 0, 0, 0, 0>>,
     <<-1, 0, 0, 0, 1, 0, 0, 0, 1>>,
     <<0, 0, 1, 1, 0, 0, 0, 1, 0>>}

InRange(m) == \A k \in 1..9 : m[k] \in (-MaxEntry)..MaxEntry

\* a call of ApplyTransform; its first argument is one of Matrices or what
\* a call on one of them returned
CallApplyTransform(a, b) ==
    /\ InRange(a)
    /\ InRange(b)
    /\ trans1' = a
    /\ trans2' = b
    /\ trans' = ApplyTransform(a, b)
    /\ UNCHANGED <<tracerVars, compositeVars, animalVars, puddleVars>>

TransformInit ==
    TracerIdle /\ CompositeIdle /\ TransformIdle /\ AnimalIdle /\ PuddleIdle

TransformNext ==
    \/ \E a \in Matrices, b \in Matrices : CallApplyTransform(a, b)
    \/ \E b \in Matrices : trans1 \in Matrices /\ CallApplyTransform(trans, b)

TransformSpec == TransformInit /\ [][TransformNext]_vars

(***************************************************************************)
(* AnimalSystem (src/unnamed/part_002)                                     *)
(***************************************************************************)
\* config.maxAnimals (30 in the source)
maxAnimals == 2

\* animalTypes.wolf.lifespan (10000 in the source)
lifespan == 2

\* howlDuration (180 in the source)
howlDuration == 3

\* the longest this.animals gets through addAnimal, which has no limit
AnimalCap == 3

\* the most animateHowl callbacks that wait at a time
MaxHowls == 2

\* the keys of this.animalTypes
AnimalTypes == {"wolf"}

\* the type arguments of addAnimal: a known type and an unknown one
Types == {"wolf", "deer"}

\* generateId(): the id of no animal of as
FreshId(as) ==
    CHOOSE n \in 1..(Len(as) + 1) : \A i \in 1..Len(as) : as[i].id # n

\* createAnimalMesh(type, animalData): a mesh cloned from the template, or
\* nothing (undefined) when there is no template
createAnimalMesh(type, template) ==
    IF type = "wolf" /\ template = "template" THEN "mesh" ELSE "undefined"

\* spawnAnimal(type, x, z) on the animals as and the scene's meshes ms: what
\* it leaves of them and how it ends ("TypeError": mesh.position of an
\* undefined mesh)
spawnAnimal(as, ms, type, template) ==
    IF type \notin AnimalTypes
    THEN [animals |-> as, meshes |-> ms, result |-> "null"]
    ELSE IF createAnimalMesh(type, template) = "undefined"
    THEN [animals |-> as, meshes |-> ms, result |-> "TypeError"]
    ELSE [animals |-> Append(as, [id |-> FreshId(as), age |-> 0]),
          meshes  |-> ms \cup {FreshId(as)},
          result  |-> "animal"]

\* the loop of createInitialPopulation, n iterations from st; an exception
\* ends it
RECURSIVE createInitialPopulation(_, _, _)
createInitialPopulation(st, n, template) ==
    IF n = 0 \/ st.result = "TypeError" THEN st
    ELSE createInitialPopulation(
             spawnAnimal(st.animals, st.meshes, "wolf", template), n - 1,
             template)

\* the iterations of createInitialPopulation: i < maxAnimals * 0.5
InitialPopulation == (maxAnimals + 1) \div 2

\* as without its element i (splice(i, 1))
Splice(as, i) == SubSeq(as, 1, i - 1) \o SubSeq(as, i + 1, Len(as))

\* this.animals.forEach(...) of update, from index i: forEach visits the
\* indices below the length the array had at first that the array still
\* has. st.processed are the animals the callback was called with, st.aged
\* those that animalDeath removed
RECURSIVE ForEachAnimal(_, _)
ForEachAnimal(st, i) ==
    IF i > Len(st.animals) THEN st
    ELSE LET animal == st.animals[i]
             age    == animal.age + 1
         IN  ForEachAnimal(
                 IF age > lifespan
                 THEN [animals   |-> Splice(st.animals, i),
                       meshes    |-> st.meshes \ {animal.id},
                       processed |-> Append(st.processed, animal.id),
                       aged      |-> st.aged \cup {animal.id}]
                 ELSE [st EXCEPT !.animals[i].age = age,
                                 !.processed = Append(@, animal.id)],
                 i + 1)

Ids(as) == {as[i].id : i \in 1..Len(as)}

\* the resolution of the load awaited in init(), and what follows the await:
\* createInitialPopulation
LoadSettles(loaded) ==
    /\ wolfModelTemplate = "undefined"
    /\ LET template == IF loaded THEN "template" ELSE "null"
           st == createInitialPopulation(
                     [animals |-> animals, meshes |-> sceneMeshes,
                      result |-> "none"], InitialPopulation, template)
       IN  /\ wolfModelTemplate' = template
           /\ animals' = st.animals
           /\ sceneMeshes' = st.meshes
           /\ called' = [NoCall EXCEPT !.op = "init", !.result = st.result]
    /\ UNCHANGED <<enabled, spawningPaused, howls>>
    /\ UNCHANGED <<tracerVars, compositeVars, transformVars, puddleVars>>

\* addAnimal(type, x, z)
addAnimal(type) ==
    /\ Len(animals) < AnimalCap
    /\ LET st == spawnAnimal(animals, sceneMeshes, type, wolfModelTemplate)
       IN  /\ animals' = st.animals
           /\ sceneMeshes' = st.meshes
           /\ called' = [NoCall EXCEPT !.op = "addAnimal", !.result = st.result]
    /\ UNCHANGED <<wolfModelTemplate, enabled, spawningPaused, howls>>
    /\ UNCHANGED <<tracerVars, compositeVars, transformVars, puddleVars>>

\* update(). far are the animals that are beyond despawnRadius once they
\* have moved; spawn is Math.random() < spawnChance. The position, the
\* velocity and the timers of an animal, and performCleanup, which resets
\* timers, are left out
update(far, spawn) ==
    /\ IF ~enabled
       THEN /\ called' = [NoCall EXCEPT !.op = "update", !.result = "disabled"]
            /\ UNCHANGED <<animals, sceneMeshes>>
       ELSE LET each == ForEachAnimal(
                            [animals |-> animals, meshes |-> sceneMeshes,
                             processed |-> <<>>, aged |-> {}], 1)
                kept == SelectSeq(each.animals, LAMBDA a : a.id \notin far)
                st   == IF ~spawningPaused /\ Len(kept) < maxAnimals /\ spawn
                        THEN spawnAnimal(kept, each.meshes \ far, "wolf",
                                         wolfModelTemplate)
                        ELSE [animals |-> kept, meshes |-> each.meshes \ far,
                              result |-> "none"]
            IN  /\ far \subseteq Ids(each.animals)
                /\ animals' = st.animals
                /\ sceneMeshes' = st.meshes
                /\ called' = [op |-> "update",
                              result |-> IF st.result = "TypeError"
                                         THEN "TypeError" ELSE "returned",
                              processed |-> each.processed,
                              aged |-> each.aged]
    /\ UNCHANGED <<wolfModelTemplate, enabled, spawningPaused, howls>>
    /\ UNCHANGED <<tracerVars, compositeVars, transformVars, puddleVars>>

\* toggle()
toggle ==
    /\ enabled' = ~enabled
    /\ called' = [NoCall EXCEPT !.op = "toggle"]
    /\ UNCHANGED <<wolfModelTemplate, animals, sceneMeshes, spawningPaused,
                   howls>>
    /\ UNCHANGED <<tracerVars, compositeVars, transformVars, puddleVars>>

\* pauseSpawning() or resumeSpawning(), as the key Y calls them
KeyY ==
    /\ spawningPaused' = ~spawningPaused
    /\ called' = [NoCall EXCEPT !.op = "KeyY"]
    /\ UNCHANGED <<wolfModelTemplate, animals, sceneMeshes, enabled, howls>>
    /\ UNCHANGED <<tracerVars, compositeVars, transformVars, puddleVars>>

\* removeAllAnimals()
removeAllAnimals ==
    /\ animals # <<>>
    /\ animals' = <<>>
    /\ sceneMeshes' = sceneMeshes \ Ids(animals)
    /\ called' = [NoCall EXCEPT !.op = "removeAllAnimals"]
    /\ UNCHANGED <<wolfModelTemplate, enabled, spawningPaused, howls>>
    /\ UNCHANGED <<tracerVars, compositeVars, transformVars, puddleVars>>

\* one run of animateHowl on st = [enabled, howls], for the howl h: the next
\* frame is requested, or the howl is over and the system is enabled
AnimateHowl(st, h) ==
    IF h.howlFrame + 1 < howlDuration
    THEN [st EXCEPT !.howls = Append(@, [h EXCEPT !.howlFrame = @ + 1])]
    ELSE [st EXCEPT !.enabled = TRUE]

\* createWolfHowlAnimation(animal) for n wolves in turn, as the key H calls
\* it: each disables the system and runs animateHowl once
RECURSIVE createWolfHowlAnimation(_, _)
createWolfHowlAnimation(st, n) ==
    IF n = 0 THEN st
    ELSE createWolfHowlAnimation(
             AnimateHowl([st EXCEPT !.enabled = FALSE],
                         [howlFrame |-> 0, before |-> st.enabled]), n - 1)

\* the key H: every animal is a wolf, and the mesh of each has bones
KeyH ==
    /\ animals # <<>>
    /\ Len(howls) + Len(animals) <= MaxHowls
    /\ LET st == createWolfHowlAnimation(
                     [enabled |-> enabled, howls |-> howls], Len(animals))
       IN  /\ enabled' = st.enabled
           /\ howls' = st.howls
    /\ called' = [NoCall EXCEPT !.op = "KeyH"]
    /\ UNCHANGED <<wolfModelTemplate, animals, sceneMeshes, spawningPaused>>
    /\ UNCHANGED <<tracerVars, compositeVars, transformVars, puddleVars>>

\* the animation frame of the howl that has waited longest
animateHowl ==
    /\ howls # <<>>
    /\ LET st == AnimateHowl([enabled |-> enabled, howls |-> Tail(howls)],
                             Head(howls))
       IN  /\ enabled' = st.enabled
           /\ howls' = st.howls
    /\ called' = [NoCall EXCEPT !.op = "animateHowl"]
    /\ UNCHANGED <<wolfModelTemplate, animals, sceneMeshes, spawningPaused>>
    /\ UNCHANGED <<tracerVars, compositeVars, transformVars, puddleVars>>

AnimalInit ==
    TracerIdle /\ CompositeIdle /\ TransformIdle /\ AnimalIdle /\ PuddleIdle

AnimalNext ==
    \/ \E loaded \in BOOLEAN : LoadSettles(loaded)
    \/ \E type \in Types : addAnimal(type)
    \/ \E far \in SUBSET (1..AnimalCap), spawn \in BOOLEAN : update(far, spawn)
    \/ toggle
    \/ KeyY
    \/ removeAllAnimals
    \/ KeyH
    \/ animateHowl

AnimalSpec == AnimalInit /\ [][AnimalNext]_vars

(***************************************************************************)
(* The puddles of the weather system (src/unnamed/part_001)                *)
(***************************************************************************)
\* weatherSystem.puddleLifetime (300 in the source)
puddleLifetime == 3

\* weatherSystem.maxPuddles (20 in the source, 30 or 50 once it has rained)
maxPuddles == 3

\* the values of rainIntensity, in hundredths: the targets of setWeather,
\* the thresholds 0.1 and 0.2 of the puddles, and values around them
RainLevels == {0, 5, 10, 15, 20, 30, 40, 70, 100}

\* targetRainIntensity for 'clear', 'light', 'rain' and 'heavy'
RainTargets == {0, 40, 70, 100}

\* the values the transition of updateWeatherSystem may give rainIntensity
\* in a frame: it moves it towards the target by 2% of what is left, and
\* onto the target once less than 0.01 is left, so that from frame to frame
\* it stays at a level or moves to one nearer the target
Ease(r, target) ==
    {x \in RainLevels : IF r <= target THEN r <= x /\ x <= target
                                       ELSE target <= x /\ x <= r}

\* what createPuddle pushes: lifetime puddleLifetime, not evaporating
NewPuddle(ps) ==
    [id |-> FreshId(ps), lifetime |-> puddleLifetime, evaporating |-> FALSE,
     steps |-> 0]

\* Evaporated, were a puddle removed one step early
EvaporatedEarly(lifetime) == lifetime <= 1

\* the test that removes a puddle
Evaporated(lifetime) == lifetime <= 0

\* the loop of updatePuddles from index i down, on st = [puddles, meshes],
\* at rain intensity r. The opacity, the scale and the shininess of the mesh
\* are left out
RECURSIVE updatePuddles(_, _, _)
updatePuddles(st, i, r) ==
    IF i < 1 THEN st
    ELSE LET puddle      == st.puddles[i]
             evaporating == puddle.evaporating \/ r < 10
             lifetime    == IF evaporating THEN puddle.lifetime - 1
                                           ELSE puddle.lifetime
         IN  updatePuddles(
                 IF evaporating /\ Evaporated(lifetime)
                 THEN [puddles |-> Splice(st.puddles, i),
                       meshes  |-> st.meshes \ {puddle.id}]
                 ELSE [st EXCEPT !.puddles[i] =
                          [id |-> puddle.id, lifetime |-> lifetime,
                           evaporating |-> evaporating,
                           steps |-> IF evaporating THEN puddle.steps + 1
                                                    ELSE 0]],
                 i - 1, r)

\* updateWeatherSystem(): the transition of the intensity to r, then
\* createRandomPuddles, where create stands for the random draw and the
\* tests of slope and distance, then updatePuddles
updateWeatherSystem(r, create) ==
    /\ r \in Ease(rainIntensity, targetRainIntensity)
    /\ LET visible == r > 1
           made == IF visible /\ r > 20 /\ create /\ Len(puddles) < maxPuddles
                   THEN [puddles |-> Append(puddles, NewPuddle(puddles)),
                         meshes  |-> puddleMeshes \cup {FreshId(puddles)}]
                   ELSE [puddles |-> puddles, meshes |-> puddleMeshes]
           st == updatePuddles(made, Len(made.puddles), r)
       IN  /\ rainIntensity' = r
           /\ puddles' = st.puddles
           /\ puddleMeshes' = st.meshes
    /\ UNCHANGED targetRainIntensity
    /\ UNCHANGED <<tracerVars, compositeVars, transformVars, animalVars>>

\* setWeather(type), target being the intensity of the type
setWeather(target) ==
    /\ targetRainIntensity' = target
    /\ UNCHANGED <<rainIntensity, puddles, puddleMeshes>>
    /\ UNCHANGED <<tracerVars, compositeVars, transformVars, animalVars>>

PuddleInit ==
    TracerIdle /\ CompositeIdle /\ TransformIdle /\ AnimalIdle /\ PuddleIdle

PuddleNext ==
    \/ \E r \in RainLevels, create \in BOOLEAN : updateWeatherSystem(r, create)
    \/ \E target \in RainTargets : setWeather(target)

PuddleSpec == PuddleInit /\ [][PuddleNext]_vars

(***************************************************************************)
(* Properties                                                              *)
(***************************************************************************)
NonZero(v) == v # Zero3

\* the evaluation found a surface: hit is what IntersectRay left for ray
HitValid ==
    \/ pc = "bouncing"
    \/ pc = "done" /\ exit \in {"max", "limit", "absorbed", "escaped"}

\* hit is what IntersectRay left for the primary ray
PrimaryHit == HitValid /\ bounce = 0

\* the roots t > 0 of sphere s on a ray of non-zero direction
PositiveRoots(r, s) ==
    LET a == QuadA(r)
        b == QuadB(r, s)
        d == Discriminant(a, b, QuadC(r, s))
    IN  IF d < 0 THEN {}
        ELSE {t \in {RootT1(a, b, FSqrt(d)), RootT2(a, b, FSqrt(d))} : t > 0}

ScenePositiveRoots(sph, r) ==
    UNION {PositiveRoots(r, sph[i]) : i \in 1..Len(sph)}

SetMin(S) == CHOOSE x \in S : \A y \in S : x <= y

\* C1: for a primary ray of non-zero direction, alpha is 1 if and only if
\* IntersectRay reports a hit for it and 0 otherwise; on a miss the colour
\* returned is the environment colour along the ray's direction, nothing was
\* shaded and no reflection ray was traced.
C1_AlphaIffPrimaryHit ==
    (pc = "done" /\ NonZero(primary.dir)) =>
        LET res == IntersectRay(spheres, NoHit, primary)
        IN  /\ out[4] = (IF res.found THEN SCALE ELSE 0)
            /\ ~res.found =>
                  /\ out = Vec4(EnvColor(envMap, primary.dir), 0)
                  /\ nrays = 0
                  /\ path = <<>>
                  /\ exit = "miss"

C1_Witness ==
    /\ pc = "done"
    /\ NonZero(primary.dir)
    /\ exit = "miss"
    /\ out = Vec4(EnvColor(envMap, primary.dir), 0)

\* C2: for a ray of non-zero direction IntersectRay returns true exactly when
\* some sphere has a root t > 0, and hit.t is then the least positive root
\* over all the spheres (and is positive); stated of the primary ray and of
\* every reflection ray.
C2_NearestPositiveRoot ==
    /\ (HitValid /\ NonZero(ray.dir)) =>
           /\ ScenePositiveRoots(spheres, ray) # {}
           /\ hit.t = SetMin(ScenePositiveRoots(spheres, ray))
           /\ hit.t > 0
    /\ (exit = "miss" /\ NonZero(primary.dir)) =>
           ScenePositiveRoots(spheres, primary) = {}
    /\ exit = "escaped" =>
           ScenePositiveRoots(spheres, ReflectionRay(hit, ray)) = {}

\* a hit on the second of two spheres, the first of which the ray also meets
C2_Witness ==
    /\ HitValid
    /\ Len(spheres) = 2
    /\ PositiveRoots(ray, spheres[1]) # {}
    /\ PositiveRoots(ray, spheres[2]) # {}
    /\ hit.t = SetMin(PositiveRoots(ray, spheres[2]))
    /\ hit.t < SetMin(PositiveRoots(ray, spheres[1]))

\* the shadow ray of light i at the surface point held in hit: from
\* position + 0.001 * normal towards the light
ShadowRayOf(i) ==
    Ray(VAdd(hit.position, VScale(hit.normal, SCALE \div 1000)),
        Normalize(VSub(lights[i].position, hit.position)))

DistanceToLight(i) == Length(VSub(lights[i].position, hit.position))

\* the spheres that light i's shadow ray meets nearer than the light
Occluders(i) ==
    {j \in 1..Len(spheres) :
        \E t \in PositiveRoots(ShadowRayOf(i), spheres[j]) :
            t < DistanceToLight(i)}

\* the spheres without those of the set J
RECURSIVE Without(_, _, _)
Without(sph, J, j) ==
    IF j > Len(sph) THEN <<>>
    ELSE (IF j \in J THEN <<>> ELSE <<sph[j]>>) \o Without(sph, J, j + 1)

\* the latest call of Shade was for the surface point held in hit, and it
\* divided nowhere by zero
Shaded == HitValid /\ defined

ViewOf(r) == Normalize(VNeg(r.dir))

\* C3: Shade skips light i if and only if the shadow ray meets some sphere at
\* a distance t strictly less than the distance from the shaded point to the
\* light (a root at that distance or beyond does not shadow); a skipped
\* light adds nothing to the colour, and with its occluders removed the same
\* point is lit by it again.
C3_ShadowedIffOccluderNearer ==
    Shaded =>
        \A i \in 1..Len(lights) :
            /\ i \in skipped <=> Occluders(i) # {}
            /\ i \in skipped =>
                  LET alone   == <<lights[i]>>
                      open    == Without(spheres, Occluders(i), 1)
                      with    == Shade(spheres, alone, hit.mtl, hit.position,
                                       hit.normal, ViewOf(ray), NoHit)
                      without == Shade(open, alone, hit.mtl, hit.position,
                                       hit.normal, ViewOf(ray), NoHit)
                  IN  /\ with.color = Zero3
                      /\ without.ok => without.skipped = {}

\* one light is skipped because a sphere stands before it, the other is not
\* although its shadow ray meets a sphere, beyond the light
C3_Witness ==
    /\ Shaded
    /\ Len(lights) = 2
    /\ 2 \in skipped
    /\ 1 \notin skipped
    /\ ScenePositiveRoots(spheres, ShadowRayOf(1)) # {}
    /\ shaded # Zero3

\* the running attenuation: the product of the specular coefficients of the
\* surfaces of a path, in the order they were hit
RECURSIVE AttenuationUpTo(_, _)
AttenuationUpTo(p, n) ==
    IF n = 1 THEN p[1].k_s ELSE VMul(AttenuationUpTo(p, n - 1), p[n].k_s)

Attenuation(p) == AttenuationUpTo(p, Len(p))

\* the step in which a reflection ray hits a sphere
ReflectionHit == pc = "bouncing" /\ pc' = "bouncing" /\ bounce' = bounce + 1

\* C4: when the reflection ray of bounce k hits a sphere, the colour gains
\* exactly attenuation * Shade(the new hit), with the view the normalized
\* negated reflection direction and attenuation the product of the specular
\* coefficients of the surfaces hit before (the new surface's k_s is
\* multiplied in afterwards); the new hit and the reflection ray are what
\* the next bounce starts from; after a surface of k_s = (1,1,1) the colour
\* of the second surface is added unscaled.
C4_ReflectionAccumulates ==
    [][(ReflectionHit /\ defined') =>
          LET r  == ReflectionRay(hit, ray)
              h  == IntersectRay(spheres, NoHit, r).hit
              sh == Shade(spheres, lights, h.mtl, h.position, h.normal,
                          ViewOf(r), NoHit)
          IN  /\ k_s = Attenuation(path)
              /\ clr' = VAdd(clr, VMul(Attenuation(path), sh.color))
              /\ Attenuation(path) = White => clr' = VAdd(clr, sh.color)
              /\ path' = Append(path, h.mtl)
              /\ k_s' = Attenuation(path')
              /\ ray' = r
              /\ hit' = h]_vars

\* the second reflection ray has hit: the attenuation is no longer (1,1,1)
\* and a colour was added
C4_Witness ==
    /\ pc = "bouncing"
    /\ bounce = 2
    /\ defined
    /\ path[1].k_s = White
    /\ k_s # White
    /\ k_s # Zero3
    /\ shaded # Zero3

\* C5: with bounceLimit = 0 a primary ray that hits returns exactly
\* Shade(hit material, position, normal, view) with alpha 1; no reflection
\* ray is intersected and nothing else is added, whatever the k_s.
C5_NoBounceIsDirectShading ==
    (pc = "done" /\ bounceLimit = 0 /\ HitValid /\ defined) =>
        LET h  == IntersectRay(spheres, NoHit, primary).hit
            sh == Shade(spheres, lights, h.mtl, h.position, h.normal,
                        ViewOf(primary), NoHit)
        IN  /\ out = Vec4(sh.color, SCALE)
            /\ nrays = 0
            /\ exit = "limit"
            /\ hit = h

\* a specular surface shaded with bounceLimit = 0
C5_Witness ==
    /\ pc = "done"
    /\ bounceLimit = 0
    /\ HitValid
    /\ defined
    /\ hit.mtl.k_s # Zero3
    /\ out[4] = SCALE
    /\ shaded # Zero3

RayCap == Min(Max(bounceLimit, 0), MAX_BOUNCES)

\* C6: for every bounceLimit (negative or above MAX_BOUNCES included) an
\* evaluation traces at most min(max(bounceLimit, 0), MAX_BOUNCES)
\* reflection rays, and it terminates: every iteration of the loop either
\* returns or advances the loop variable, which never exceeds that cap.
C6_BoundedReflectionRays ==
    /\ [](nrays <= RayCap /\ (pc = "bouncing" => bounce <= RayCap))
    /\ [][pc = "bouncing" =>
             (pc' = "done" \/ (pc' = "bouncing" /\ bounce' = bounce + 1))]_vars

\* a limit above MAX_BOUNCES, and MAX_BOUNCES reflection rays traced
C6_Witness ==
    /\ pc = "done"
    /\ bounceLimit > MAX_BOUNCES
    /\ nrays = MAX_BOUNCES
    /\ exit = "max"

\* C7: an evaluation that divides nowhere by zero returns what an earlier
\* evaluation of the same ray returned, whatever was evaluated in between
\* and whatever the uninitialized locals held, and no step changes the
\* spheres, the lights or bounceLimit.
C7_Deterministic ==
    /\ []((pc = "done" /\ defined /\ seen.ray = primary) => out = seen.out)
    /\ [][scene' = scene /\ bounceLimit' = bounceLimit]_vars

\* the second evaluation of a ray that hits and reflects
C7_Witness ==
    /\ pc = "done"
    /\ defined
    /\ seen.ray = primary
    /\ nrays > 0
    /\ out = seen.out

\* the ray's origin is strictly inside sphere s
Inside(r, s) == QuadC(r, s) < 0

FarRoot(r, s) ==
    LET a == QuadA(r)
        b == QuadB(r, s)
    IN  RootT2(a, b, FSqrt(Discriminant(a, b, QuadC(r, s))))

NearRoot(r, s) ==
    LET a == QuadA(r)
        b == QuadB(r, s)
    IN  RootT1(a, b, FSqrt(Discriminant(a, b, QuadC(r, s))))

\* no other sphere than spheres[i] has a positive root below t, and none
\* before it in the array has one at t
NoneNearer(r, i, t) ==
    \A j \in 1..Len(spheres) :
        j # i => \A u \in PositiveRoots(r, spheres[j]) :
                    IF j < i THEN u > t ELSE u >= t

\* C8: a primary ray (of non-zero direction) that starts strictly inside a
\* sphere is a hit; if no other sphere is nearer, t is that sphere's far
\* root t2 > 0, and the near root, which is negative, is not reported.
C8_InsideGivesFarRoot ==
    \A i \in 1..Len(spheres) :
        (pc # "idle" /\ NonZero(primary.dir) /\ Inside(primary, spheres[i])) =>
            /\ exit # "miss"
            /\ PrimaryHit =>
                  /\ hit.t > 0
                  /\ NearRoot(primary, spheres[i]) < 0
                  /\ hit.t # NearRoot(primary, spheres[i])
                  /\ hit.t <= FarRoot(primary, spheres[i])
                  /\ NoneNearer(primary, i, FarRoot(primary, spheres[i])) =>
                        /\ hit.t = FarRoot(primary, spheres[i])
                        /\ hit.mtl = spheres[i].mtl

\* a ray from inside the first sphere, off its centre, leaves through it
C8_Witness ==
    /\ PrimaryHit
    /\ Inside(primary, spheres[1])
    /\ primary.pos # spheres[1].center
    /\ NearRoot(primary, spheres[1]) < 0
    /\ hit.t = FarRoot(primary, spheres[1])

\* the cross product, in whole units
Cross(u, v) ==
    <<u[2] * v[3] - u[3] * v[2], u[3] * v[1] - u[1] * v[3],
      u[1] * v[2] - u[2] * v[1]>>

\* the ray starts outside sphere s and points at its centre
AimedAtCenter(r, s) ==
    /\ QuadC(r, s) > 0
    /\ Cross(r.dir, VSub(s.center, r.pos)) = Zero3
    /\ Dot(r.dir, VSub(s.center, r.pos)) > 0

DistanceToCenter(r, s) == Length(VSub(r.pos, s.center))

\* C9 as stated: in a scene of one sphere, a ray from outside it aimed at its
\* centre, of whatever length its direction, is a hit with
\* t = distance(origin, center) - radius.
C9_Original ==
    (pc # "idle" /\ Len(spheres) = 1 /\ AimedAtCenter(primary, spheres[1])) =>
        /\ exit # "miss"
        /\ PrimaryHit =>
              hit.t = DistanceToCenter(primary, spheres[1]) - spheres[1].radius

\* C9, amended: such a ray is a hit and t is that distance in units of the
\* direction's length: t * length(dir) = distance(origin, center) - radius.
C9_AimedAtCenterDistance ==
    (pc # "idle" /\ Len(spheres) = 1 /\ AimedAtCenter(primary, spheres[1])) =>
        /\ exit # "miss"
        /\ PrimaryHit =>
              FMul(hit.t, Length(primary.dir))
                  = DistanceToCenter(primary, spheres[1]) - spheres[1].radius

\* an aimed ray whose direction has length 2
C9_Witness ==
    /\ PrimaryHit
    /\ Len(spheres) = 1
    /\ AimedAtCenter(primary, spheres[1])
    /\ Length(primary.dir) = 2 * SCALE
    /\ 2 * hit.t = DistanceToCenter(primary, spheres[1]) - spheres[1].radius

\* the scene and the ray of the concrete scenario
Scenario ==
    /\ spheres = <<Sphere(V(0, 0, 0), SCALE, MtlRed)>>
    /\ lights = <<Light(V(0, 5, 0), White)>>
    /\ bounceLimit = 0
    /\ primary = Ray(V(0, 0, 5), V(0, 0, -1))
    /\ pc = "done"

ScenarioHit ==
    /\ hit.t = 4 * SCALE
    /\ hit.position = V(0, 0, 1)
    /\ hit.normal = V(0, 0, 1)

\* C10 as stated: in the scenario the hit is at t = 4, position (0,0,1),
\* normal (0,0,1), the light is not shadowed there, and the colour returned
\* is not zero, has red as its largest channel, and has alpha 1.
C10_Original ==
    Scenario =>
        /\ ScenarioHit
        /\ skipped = {}
        /\ <<out[1], out[2], out[3]>> # Zero3
        /\ out[1] > out[2]
        /\ out[1] > out[3]
        /\ out[4] = SCALE

\* C10, amended: the hit is as stated, but the light, which lies below the
\* tangent plane at the hit point, is skipped as shadowed (its shadow ray
\* meets the sphere itself), and the colour returned is (0,0,0) with alpha 1.
C10_ScenarioIsShadowed ==
    Scenario =>
        /\ ScenarioHit
        /\ skipped = {1}
        /\ Occluders(1) = {1}
        /\ Dot(hit.normal, ShadowRayOf(1).dir) < 0
        /\ out = <<0, 0, 0, SCALE>>

C10_Witness ==
    /\ Scenario
    /\ exit = "limit"
    /\ skipped = {1}
    /\ out = <<0, 0, 0, SCALE>>

\* C11 as stated: a primary ray whose direction has zero length is a miss:
\* IntersectRay reports no hit and RayTracer returns the miss result with
\* alpha 0, nothing of it derived from a division by zero.
C11_Original ==
    (pc = "done" /\ primary.dir = Zero3) =>
        /\ exit = "miss"
        /\ out[4] = 0
        /\ defined

\* C12 as stated: for a primary ray of non-zero direction no step of the
\* evaluation divides by zero or normalizes a vector of length zero, in
\* IntersectRay or in Shade, and the colour returned is defined.
C12_Original ==
    (pc # "idle" /\ NonZero(primary.dir)) =>
        /\ defined
        /\ exit # "undefined"

\* what light i adds at the surface point held in hit, seen along ray:
\* k_d * intensity * max(N.L, 0) + k_s * intensity * max(N.H, 0)^n
LightContribution(i) ==
    LET L     == ShadowRayOf(i).dir
        H     == Normalize(VAdd(L, ViewOf(ray)))
        NdotL == Max(Dot(hit.normal, L), 0)
        NdotH == Max(Dot(hit.normal, H), 0)
    IN  VAdd(VScale(VMul(hit.mtl.k_d, lights[i].intensity), NdotL),
             VScale(VMul(hit.mtl.k_s, lights[i].intensity),
                    FPow(NdotH, hit.mtl.n)))

\* the sum of the contributions of the lights 1..i that no sphere shadows
RECURSIVE SumUnshadowed(_)
SumUnshadowed(i) ==
    IF i = 0 THEN Zero3
    ELSE VAdd(SumUnshadowed(i - 1),
              IF Occluders(i) # {} THEN Zero3 ELSE LightContribution(i))

Reverse(q) == [i \in 1..Len(q) |-> q[Len(q) + 1 - i]]

\* C13: what Shade returns is exactly the sum, over the lights that are not
\* shadowed, of k_d * intensity * max(dot(normal, lightDir), 0)
\* + k_s * intensity * max(dot(normal, halfVector), 0)^n, with no other term
\* and no clamping; it is (0,0,0) when every light is shadowed, and the
\* lights taken in the reverse order give the same colour.
C13_ShadeIsSumOfUnshadowed ==
    Shaded =>
        /\ shaded = SumUnshadowed(Len(lights))
        /\ skipped = 1..Len(lights) => shaded = Zero3
        /\ Shade(spheres, Reverse(lights), hit.mtl, hit.position, hit.normal,
                 ViewOf(ray), NoHit).color = shaded

\* two lights, neither shadowed, that add different colours to a specular
\* surface, one channel of the sum above 1
C13_Witness ==
    /\ Shaded
    /\ Len(lights) = 2
    /\ skipped = {}
    /\ hit.mtl.k_s # Zero3
    /\ LightContribution(1) # Zero3
    /\ LightContribution(2) # Zero3
    /\ LightContribution(1) # LightContribution(2)
    /\ shaded[1] > SCALE

\* composite is in its loops or has returned from them
Compositing == cpc = "loop" \/ (cpc = "returned" /\ fgOpac # 0)

\* the background pixel (x, y) lies under a pixel of the foreground
Covered(x, y) ==
    /\ x \in 0..(bgImg.width - 1)
    /\ y \in 0..(bgImg.height - 1)
    /\ x - fgPos.x \in 0..(fgImg.width - 1)
    /\ y - fgPos.y \in 0..(fgImg.height - 1)

\* the column and the row of the pixel that element k of bgImg.data is of
ColumnOf(k) == (k \div 4) % bgImg.width

RowOf(k) == (k \div 4) \div bgImg.width

\* the elements of the data of an image
Elements(img) == 0..(4 * img.width * img.height - 1)

\* the four elements of background pixel (x, y), were it blended with the
\* foreground pixel over it
Blended(x, y) ==
    LET at == 4 * (y * bgImg.width + x)
        b  == Blend(bgBefore.data, fgImg.data, fgOpac, at,
                    4 * ((y - fgPos.y) * fgImg.width + (x - fgPos.x)))
    IN  [c \in 1..4 |-> b.data[at + c]]

\* what C14 says of a state
CompositeFrame ==
    Compositing =>
        /\ fgImg.obj
        /\ bgImg.width = bgBefore.width /\ bgImg.height = bgBefore.height
        /\ Len(bgImg.data) = Len(bgBefore.data)
        /\ \A k \in Elements(bgImg) :
              bgImg.data[k + 1] # bgBefore.data[k + 1] =>
                  /\ Covered(ColumnOf(k), RowOf(k))
                  /\ <<"bg", k>> \in writes
        /\ \A e \in reads \cup writes :
              /\ e[1] = "bg" =>
                    e[2] \in Elements(bgImg)
                        /\ Covered(ColumnOf(e[2]), RowOf(e[2]))
              /\ e[1] = "fg" => e[2] \in Elements(fgImg) /\ e \notin writes
        /\ \A x \in 0..(bgImg.width - 1), y \in 0..(bgImg.height - 1) :
              LET at == 4 * (y * bgImg.width + x)
                  px == [c \in 1..4 |-> bgImg.data[at + c]]
                  old == [c \in 1..4 |-> bgBefore.data[at + c]]
              IN  /\ px # old => px = Blended(x, y)
                  /\ (cpc = "returned" /\ Covered(x, y)) => px = Blended(x, y)

\* C14: for every fgPos and every foreground size, composite changes only
\* elements of background pixels inside the background that lie under a
\* foreground pixel; every other element keeps its value, every element read
\* or written is inside its data array, only the background is written, the
\* foreground and the size of the background stay as they were, each pixel
\* written was blended with the foreground pixel at (x - fgPos.x,
\* y - fgPos.y), and when composite returns every covered pixel has been.
C14_CompositeFrame ==
    /\ []CompositeFrame
    /\ [][cpc = "loop" => fgImg' = fgImg /\ fgPos' = fgPos]_vars

\* a foreground that hangs over the top-left corner of the background: a
\* part of it changed a pixel, the pixels it does not cover are as before
C14_Witness ==
    /\ cpc = "returned"
    /\ fgPos.x < 0
    /\ fgPos.y < 0
    /\ fgImg.width = 2
    /\ bgImg.width = 2
    /\ writes # {}
    /\ bgImg.data[1] # bgBefore.data[1]
    /\ \A k \in 4..15 : bgImg.data[k + 1] = bgBefore.data[k + 1]

\* bg is missing, or has no data, no width or no height, a width or a
\* height of 0 included
InvalidBackground(bg) ==
    \/ ~bg.obj
    \/ bg.missing # {}
    \/ bg.width = 0
    \/ bg.height = 0

\* C16: composite throws Error("Invalid background image") when bgImg is
\* missing or has no data, width or height (a width or height of 0
\* included), and only then; it does so before it reads the foreground, a
\* missing one included, and before it reads or writes any pixel.
C16_InvalidBackgroundThrows ==
    cpc # "idle" =>
        /\ InvalidBackground(bgBefore) =>
              /\ cpc = "thrown"
              /\ thrown = "Invalid background image"
              /\ reads = {}
              /\ writes = {}
              /\ bgImg = bgBefore
        /\ thrown = "Invalid background image" => InvalidBackground(bgBefore)

\* a background of width 0 with its data, a missing foreground and an
\* opacity that is not 0
C16_Witness ==
    /\ cpc = "thrown"
    /\ thrown = "Invalid background image"
    /\ bgBefore.obj
    /\ bgBefore.missing = {}
    /\ bgBefore.width = 0
    /\ ~fgImg.obj
    /\ fgOpac # 0

\* the element in row r and column c (from 0) of a column-major matrix
Entry(m, r, c) == m[3 * c + r + 1]

\* the matrix product a * b, column-major
Product(a, b) ==
    [k \in 1..9 |->
        LET r == (k - 1) % 3
            c == (k - 1) \div 3
        IN  Entry(a, r, 0) * Entry(b, 0, c) + Entry(a, r, 1) * Entry(b, 1, c)
                + Entry(a, r, 2) * Entry(b, 2, c)]

\* the matrix m applied to the homogeneous point p
TransformPoint(m, p) ==
    [r \in 1..3 |->
        Entry(m, r - 1, 0) * p[1] + Entry(m, r - 1, 1) * p[2]
            + Entry(m, r - 1, 2) * p[3]]

Points == {<<x, y, w>> : x \in {-2, 0, 3}, y \in {-1, 0, 1}, w \in {0, 1}}

\* C15: ApplyTransform(trans1, trans2) is the column-major matrix product
\* trans2 * trans1: applied to a point it gives what trans2 gives of what
\* trans1 gives of the point; ApplyTransform is associative and the identity
\* matrix is its left and right unit (over matrices of small integers).
C15_ApplyTransformIsProduct ==
    /\ trans = Product(trans2, trans1)
    /\ \A p \in Points :
          TransformPoint(trans, p)
              = TransformPoint(trans2, TransformPoint(trans1, p))
    /\ \A m \in Matrices :
          ApplyTransform(ApplyTransform(trans1, trans2), m)
              = ApplyTransform(trans1, ApplyTransform(trans2, m))
    /\ ApplyTransform(trans, Identity) = trans
    /\ ApplyTransform(Identity, trans) = trans

\* two matrices that do not commute, the first of them itself a product
C15_Witness ==
    /\ trans1 \notin Matrices
    /\ trans2 \in Matrices
    /\ trans = ApplyTransform(trans1, trans2)
    /\ trans # ApplyTransform(trans2, trans1)
    /\ trans # trans1

Sum3(v) == v[1] + v[2] + v[3]

\* the step in which a reflection ray is traced
RayTraced == nrays' > nrays

\* C17 as stated: no reflection ray is traced on an iteration at which the
\* running attenuation, the product of the specular coefficients of all the
\* surfaces hit so far, has channels summing to <= 0.
C17_Original == [][RayTraced => Sum3(Attenuation(path)) > 0]_vars

\* C17, amended: the test is on the specular coefficient of the surface hit
\* last. No reflection ray is traced on an iteration at which that k_s has
\* channels summing to <= 0: below the bounce limit the loop ends there
\* (ABSORBED) and returns the colour it holds. A reflection ray is still
\* traced when the running attenuation sums to <= 0 through surfaces each
\* of whose k_s sums to more than 0, and it then leaves the colour as it was.
C17_AbsorbedOnSurface ==
    /\ [][RayTraced =>
             /\ hit.mtl = path[Len(path)]
             /\ Sum3(hit.mtl.k_s) > 0
             /\ k_s = Attenuation(path)
             /\ Sum3(Attenuation(path)) <= 0 => clr' = clr]_vars
    /\ [][(pc = "bouncing" /\ bounce < RayCap /\ Sum3(hit.mtl.k_s) <= 0) =>
             /\ exit' = "absorbed"
             /\ nrays' = nrays
             /\ out' = Vec4(clr, SCALE)]_vars

\* a second reflection ray was traced from a surface whose k_s is not zero,
\* with a running attenuation of (0,0,0)
C17_Witness ==
    /\ nrays = 2
    /\ Len(path) >= 2
    /\ Sum3(path[1].k_s) > 0
    /\ Sum3(path[2].k_s) > 0
    /\ AttenuationUpTo(path, 2) = Zero3

\* the reflection ray of the iteration under way meets no sphere
ReflectionMisses ==
    ScenePositiveRoots(spheres, ReflectionRay(hit, ray)) = {}

\* the iteration under way traces a reflection ray
Reflecting == pc = "bouncing" /\ bounce < RayCap /\ Sum3(hit.mtl.k_s) > 0

\* C18: when a reflection ray misses every sphere, RayTracer adds exactly
\* attenuation * environment(reflection direction) to the colour, once, and
\* leaves the loop: the colour returned is that sum with alpha 1, and no
\* further reflection ray is traced and the colour is not changed again,
\* whatever bounces remain under the limit.
C18_EscapeAddsEnvironmentOnce ==
    /\ [][(Reflecting /\ ReflectionMisses) =>
             /\ exit' = "escaped"
             /\ pc' = "done"
             /\ nrays' = nrays + 1
             /\ clr' = VAdd(clr, VMul(Attenuation(path),
                                      EnvColor(envMap,
                                               ReflectionRay(hit, ray).dir)))
             /\ out' = Vec4(clr', SCALE)
             /\ path' = path /\ hit' = hit /\ bounce' = bounce]_vars
    /\ [][exit' = "escaped" => (Reflecting /\ ReflectionMisses)]_vars
    /\ [](exit = "escaped" => pc = "done" /\ out = Vec4(clr, SCALE))
    /\ [][exit = "escaped" => pc' = "idle"]_vars

\* the first reflection ray missed with a bounce left under the limit, and
\* the environment, scaled by an attenuation that is not 1, was added
C18_Witness ==
    /\ exit = "escaped"
    /\ bounce = 0
    /\ RayCap = 2
    /\ nrays = 1
    /\ k_s # White
    /\ VMul(k_s, EnvColor(envMap, ReflectionRay(hit, ray).dir)) # Zero3
    /\ out = Vec4(VAdd(shaded, VMul(k_s, EnvColor(envMap,
                                         ReflectionRay(hit, ray).dir))), SCALE)

\* the three states that end the loop: ABSORBED, ESCAPED and LIMIT_REACHED
\* (the configured limit or MAX_BOUNCES)
Terminal == {"absorbed", "escaped", "limit", "max"}

\* C19: when the primary ray hits, the reflection loop starts in BOUNCING; it
\* stays there only while reflection rays hit, and leaves it only for
\* exactly one of ABSORBED (the surface has no specular coefficient),
\* ESCAPED (the reflection ray missed) or LIMIT_REACHED (the bounce index
\* reached bounceLimit or MAX_BOUNCES); it always reaches one of them, and
\* from then on no intersection is performed and the colour returned is the
\* one accumulated at that moment.
C19_LoopStateMachine ==
    /\ [][(pc = "idle" /\ pc' # "idle" /\ NonZero(primary'.dir)) =>
             IF ScenePositiveRoots(spheres, primary') # {}
             THEN pc' = "bouncing" /\ bounce' = 0 /\ nrays' = 0
             ELSE pc' = "done" /\ exit' = "miss"]_vars
    /\ [](pc = "bouncing" => exit = "none")
    /\ [][(pc = "bouncing" /\ pc' = "bouncing") =>
             (Reflecting /\ ~ReflectionMisses /\ bounce' = bounce + 1)]_vars
    /\ [][(pc = "bouncing" /\ pc' # "bouncing") =>
             /\ pc' = "done"
             /\ exit' \in Terminal
             /\ exit' = "max" <=> bounce >= MAX_BOUNCES
             /\ exit' = "limit" <=>
                   (bounce < MAX_BOUNCES /\ bounce >= bounceLimit)
             /\ exit' = "absorbed" <=>
                   (bounce < RayCap /\ Sum3(hit.mtl.k_s) <= 0)
             /\ exit' = "escaped" <=> (Reflecting /\ ReflectionMisses)
             /\ exit' # "escaped" => (clr' = clr /\ nrays' = nrays)
             /\ out' = Vec4(clr', SCALE)]_vars
    /\ [][(exit \in Terminal) =>
             (pc = "done" /\ pc' = "idle" /\ nrays' = 0)]_vars
    /\ (pc = "bouncing") ~> (pc = "done" /\ exit \in Terminal)

\* the loop was left for ABSORBED with bounces left under the limit, and
\* the colour of the primary hit is what is returned
C19_Witness ==
    /\ pc = "done"
    /\ exit = "absorbed"
    /\ RayCap > 0
    /\ nrays = 0
    /\ shaded # Zero3
    /\ out = Vec4(shaded, SCALE)

\* the rays intersected for the state: the primary ray, the reflection ray
\* of the surface held in hit and the shadow rays of its lights
QueriedRays ==
    (IF pc # "idle" /\ NonZero(primary.dir) THEN {primary} ELSE {})
        \cup (IF HitValid THEN {ReflectionRay(hit, ray)} ELSE {})
        \cup (IF HitValid
              THEN {ShadowRayOf(i) : i \in {j \in 1..Len(lights) :
                                               DistanceToLight(j) # 0}}
              ELSE {})

\* what the scan of the first n spheres leaves, from the hit passed in as g
ScanUpTo(n, g, r) ==
    IntersectFrom([found |-> FALSE, hit |-> [g EXCEPT !.t = Sentinel],
                   ok |-> TRUE], r, SubSeq(spheres, 1, n), 1)

\* sphere i has no root t > 0 below best on ray r
Rejected(r, i, best) == \A t \in PositiveRoots(r, spheres[i]) : t >= best

\* what C20 says of a call of IntersectRay with ray r and the hit g
WrittenOnlyWhenCloser(r, g) ==
    LET res == IntersectRay(spheres, g, r)
    IN  res.ok =>
            /\ ~res.found =>
                  /\ res.hit.t = Sentinel
                  /\ res.hit.position = g.position
                  /\ res.hit.normal = g.normal
                  /\ res.hit.mtl = g.mtl
            /\ \A i \in 1..Len(spheres) :
                  LET before == ScanUpTo(i - 1, g, r)
                      after  == ScanUpTo(i, g, r)
                  IN  /\ Rejected(r, i, before.hit.t) => after = before
                      /\ after # before =>
                            /\ after.found
                            /\ after.hit.t > 0
                            /\ after.hit.t < before.hit.t
                            /\ after.hit.mtl = spheres[i].mtl

\* C20: within a call of IntersectRay the fields of the HitInfo are written
\* only when a candidate is accepted as strictly closer: a sphere whose
\* candidate is rejected leaves all four fields as they were, and after a
\* call that returns false position, normal and material are as passed in
\* and t is the sentinel. In RayTracer a reflection ray that misses leaves
\* hit, the surface being shaded, as it was, and so do the shadow queries of
\* Shade.
C20_HitWrittenOnlyWhenCloser ==
    /\ [](\A r \in QueriedRays, g \in Garbage : WrittenOnlyWhenCloser(r, g))
    /\ []((exit = "miss" /\ NonZero(primary.dir)) =>
              \E g \in Garbage : hit = [g EXCEPT !.t = Sentinel])
    /\ []((PrimaryHit /\ NonZero(primary.dir)) =>
              hit = IntersectRay(spheres, NoHit, primary).hit)
    /\ [][exit' = "escaped" => hit' = hit]_vars

\* a primary ray that misses a sphere lying behind it, whose candidate was
\* computed and rejected: hit holds what it held before the call, with t
\* the sentinel
C20_Witness ==
    /\ exit = "miss"
    /\ Len(spheres) = 1
    /\ NonZero(primary.dir)
    /\ Discriminant(QuadA(primary), QuadB(primary, spheres[1]),
                    QuadC(primary, spheres[1])) >= 0
    /\ FarRoot(primary, spheres[1]) < 0
    /\ hit = HitInfo(Sentinel, V(1, 2, 3), V(0, 1, 0), MtlMirror)

\* the candidate of sphere s on ray r, if its test accepts one: the near root
\* if positive, else the far root
Candidates(r, s) ==
    LET a == QuadA(r)
        b == QuadB(r, s)
        d == Discriminant(a, b, QuadC(r, s))
        t == CandidateT(RootT1(a, b, FSqrt(d)), RootT2(a, b, FSqrt(d)))
    IN  IF d < 0 \/ t <= 0 THEN {} ELSE {t}

\* the spheres whose candidate on ray r is t
SpheresAt(r, t) == {i \in 1..Len(spheres) : Candidates(r, spheres[i]) = {t}}

\* two spheres or more have the least candidate of ray r
Tie(r) ==
    LET res == IntersectRay(spheres, NoHit, r)
    IN  res.ok /\ res.found /\ Cardinality(SpheresAt(r, res.hit.t)) >= 2

\* what C21 says of a call of IntersectRay with ray r and the hit g
FirstWins(r, g) ==
    LET res   == IntersectRay(spheres, g, r)
        first == SetMin(SpheresAt(r, res.hit.t))
    IN  (res.ok /\ res.found) =>
            /\ SpheresAt(r, res.hit.t) # {}
            /\ res.hit.mtl = spheres[first].mtl
            /\ res.hit.normal =
                   Normalize(VSub(res.hit.position, spheres[first].center))
            /\ \A i \in SpheresAt(r, res.hit.t) :
                   i > first => ScanUpTo(i, g, r) = ScanUpTo(i - 1, g, r)

\* C21: when two or more spheres have the same candidate t for a ray and
\* that t is the least, IntersectRay records the normal and the material of
\* the one with the lowest index: a later sphere with an equal t does not
\* replace it. Stated of every ray the evaluation queries and of the hit
\* RayTracer holds.
C21_FirstWinsOnTie ==
    /\ \A r \in QueriedRays, g \in Garbage : FirstWins(r, g)
    /\ (HitValid /\ NonZero(ray.dir)) =>
           hit.mtl = spheres[SetMin(SpheresAt(ray, hit.t))].mtl

\* a ray in the plane of symmetry of scene 6 hit both spheres at the same
\* distance, and the hit has the first sphere's normal and material, which
\* differ from the second's
C21_Witness ==
    /\ PrimaryHit
    /\ NonZero(primary.dir)
    /\ Tie(primary)
    /\ SpheresAt(primary, hit.t) = {1, 2}
    /\ spheres[1].mtl # spheres[2].mtl
    /\ hit.mtl = spheres[1].mtl
    /\ hit.normal = Normalize(VSub(hit.position, spheres[1].center))
    /\ hit.normal # Normalize(VSub(hit.position, spheres[2].center))

\* how far, in units of 1 / SCALE, a recorded position may lie from the
\* surface of s: the roots are differences of rounded terms of the size of
\* |oc| * |dir|, and what is lost there grows with that size
SurfaceTolerance(r, s) ==
    FMul(Length(VSub(r.pos, s.center)), Length(r.dir)) \div SCALE + 1

\* position lies on the surface of sphere s, as far as rounding allows
OnSurface(r, position, s) ==
    Abs(Length(VSub(position, s.center)) - s.radius) <= SurfaceTolerance(r, s)

\* the four fields of h are those sphere s gives for its candidate on ray r
RecordedFrom(h, r, s) ==
    /\ Candidates(r, s) = {h.t}
    /\ h.position = VAdd(r.pos, VScale(r.dir, h.t))
    /\ OnSurface(r, h.position, s)
    /\ h.normal = Normalize(VSub(h.position, s.center))
    /\ h.mtl = s.mtl

\* C22: whenever IntersectRay returns true, the four fields recorded come
\* from one accepted sphere s: position = ray.pos + t * ray.dir, which lies
\* on the surface of s, normal = normalize(position - s.center) and
\* material = s.mtl; none is left from an earlier, farther candidate or from
\* what the HitInfo held before the call. Stated of every ray the evaluation
\* queries and of the hit RayTracer holds.
C22_HitFieldsFromOneSphere ==
    /\ \A r \in QueriedRays, g \in Garbage :
          LET res == IntersectRay(spheres, g, r)
          IN  (res.ok /\ res.found) =>
                  \E i \in 1..Len(spheres) : RecordedFrom(res.hit, r, spheres[i])
    /\ (HitValid /\ NonZero(ray.dir)) =>
           \E i \in 1..Len(spheres) : RecordedFrom(hit, ray, spheres[i])

\* the first sphere was accepted, then the second, which is nearer and of
\* another material: the hit holds the second sphere's four fields
C22_Witness ==
    /\ HitValid
    /\ NonZero(ray.dir)
    /\ Len(spheres) = 2
    /\ spheres[1].mtl # spheres[2].mtl
    /\ ScanUpTo(1, NoHit, ray).found
    /\ ScanUpTo(1, NoHit, ray).hit.t > hit.t
    /\ RecordedFrom(hit, ray, spheres[2])
    /\ ~RecordedFrom(hit, ray, spheres[1])

\* light i is not skipped at the surface point held in hit although the
\* surface faces away from it: dot(normal, lightDir) <= 0
FacingAwayUnshadowed(i) ==
    /\ i \notin skipped
    /\ Dot(hit.normal, ShadowRayOf(i).dir) <= 0

\* C23, as claimed: in Shade an unshadowed light from which the surface
\* faces away (dot(normal, lightDir) <= 0) adds zero to the colour
\* returned, for every material and every view direction.
C23_Original ==
    Shaded =>
        \A i \in 1..Len(lights) :
            FacingAwayUnshadowed(i) => LightContribution(i) = Zero3

\* the four elements of pixel (x, y) of an image
PixelAt(img, x, y) ==
    [c \in 1..4 |-> img.data[4 * (y * img.width + x) + c]]

\* the pixel of the foreground over the background pixel (x, y)
FgOver(x, y) == PixelAt(fgImg, x - fgPos.x, y - fgPos.y)

\* C24: in composite, with fgAlpha = (foreground alpha / 255) * fgOpac, a
\* covered background pixel keeps its four bytes when fgOpac is 0 or the
\* alpha of the foreground pixel over it is 0; when fgAlpha is 1 (alpha 255
\* at opacity 1) it becomes the R, G, B of the foreground pixel with alpha
\* 255, whatever the background pixel was.
C24_TransparentKeepsOpaqueCopies ==
    /\ (cpc = "returned" /\ fgOpac = 0) => bgImg = bgBefore
    /\ (cpc = "returned" /\ fgOpac # 0) =>
          \A x \in 0..(bgImg.width - 1), y \in 0..(bgImg.height - 1) :
              Covered(x, y) =>
                  /\ FgOver(x, y)[4] = 0 =>
                        PixelAt(bgImg, x, y) = PixelAt(bgBefore, x, y)
                  /\ (FgOver(x, y)[4] = 255 /\ fgOpac = OpacDen) =>
                        PixelAt(bgImg, x, y) =
                            <<FgOver(x, y)[1], FgOver(x, y)[2],
                              FgOver(x, y)[3], 255>>

\* Fg2x2 at opacity 1, one column to the right on Bg2x2: the half-transparent
\* pixel under its opaque pixel was replaced, alpha included, and the pixel
\* under its transparent one was kept
C24_Witness ==
    /\ cpc = "returned"
    /\ fgOpac = OpacDen
    /\ fgPos = [x |-> 1, y |-> 0]
    /\ fgImg = Fg2x2
    /\ bgBefore = Bg2x2
    /\ Covered(1, 0) /\ Covered(1, 1)
    /\ FgOver(1, 0) = Pixel(255, 0, 0, 255)
    /\ PixelAt(bgBefore, 1, 0) = Pixel(40, 50, 60, 128)
    /\ PixelAt(bgImg, 1, 0) = Pixel(255, 0, 0, 255)
    /\ FgOver(1, 1) = Pixel(0, 0, 255, 0)
    /\ PixelAt(bgImg, 1, 1) = Pixel(100, 110, 120, 255)

Bytes == 0..255

\* v lies between a and b, these included
Between(v, a, b) == Min(a, b) <= v /\ v <= Max(a, b)

\* C25: in composite, for fgOpac in [0, 1] and inputs that are bytes, the
\* four channels of every pixel stay within 0..255, each colour channel of
\* a covered pixel lies between that channel of the foreground pixel over it
\* and that of the background pixel as it was (these included, after
\* rounding), and its alpha is never below what it was.
C25_BlendWithinRange ==
    Compositing =>
        /\ \A k \in Elements(bgImg) : bgImg.data[k + 1] \in Bytes
        /\ \A x \in 0..(bgImg.width - 1), y \in 0..(bgImg.height - 1) :
              Covered(x, y) =>
                  /\ \A c \in 1..3 :
                        Between(PixelAt(bgImg, x, y)[c], FgOver(x, y)[c],
                                PixelAt(bgBefore, x, y)[c])
                  /\ PixelAt(bgImg, x, y)[4] >= PixelAt(bgBefore, x, y)[4]

\* a half-transparent pixel blended over a half-transparent one: its colour
\* channels lie strictly between the two and its alpha is above what it was;
\* and a faint pixel blended over an opaque one, which stays opaque
C25_Witness ==
    /\ cpc = "returned"
    /\ fgOpac = OpacDen
    /\ fgPos = [x |-> 0, y |-> 0]
    /\ fgImg = Fg2x2
    /\ bgBefore = Bg2x2
    /\ FgOver(1, 0) = Pixel(0, 255, 0, 128)
    /\ PixelAt(bgBefore, 1, 0) = Pixel(40, 50, 60, 128)
    /\ PixelAt(bgImg, 1, 0)[1] \in 1..39
    /\ PixelAt(bgImg, 1, 0)[2] \in 51..254
    /\ PixelAt(bgImg, 1, 0)[4] \in 129..254
    /\ FgOver(1, 1) = Pixel(33, 66, 99, 51)
    /\ PixelAt(bgBefore, 1, 1) = Pixel(100, 110, 120, 255)
    /\ PixelAt(bgImg, 1, 1)[1] \in 34..99
    /\ PixelAt(bgImg, 1, 1)[4] = 255

\* the calls that reach spawnAnimal
Spawning == {"init", "addAnimal", "update"}

\* C26, as claimed: spawnAnimal succeeds in every state it can be called in.
\* No call that reaches it (init after the load, addAnimal, update through
\* managePopulation) ends in an exception, whether the wolf model is still
\* loading, loaded or failed to load; addAnimal of a known type appends
\* exactly one animal and adds its mesh to the scene, and addAnimal of an
\* unknown type returns null and changes nothing.
C26_Original ==
    [][(called'.op \in Spawning) =>
           /\ called'.result # "TypeError"
           /\ called'.op = "addAnimal" =>
                 \/ /\ called'.result = "animal"
                    /\ Len(animals') = Len(animals) + 1
                    /\ SubSeq(animals', 1, Len(animals)) = animals
                    /\ sceneMeshes' = sceneMeshes \cup {animals'[Len(animals')].id}
                    /\ sceneMeshes' # sceneMeshes
                 \/ /\ called'.result = "null"
                    /\ UNCHANGED <<animals, sceneMeshes>>]_vars

\* C27, as claimed: a howl keeps the animal system disabled for all its
\* frames, and when it completes enabled is again what it was immediately
\* before the howl started, whatever calls of toggle and howls of other
\* wolves come in between.
C27_Original ==
    /\ [](howls # <<>> => ~enabled)
    /\ [][(Len(howls') < Len(howls)) => enabled' = Head(howls).before]_vars

\* C28, as claimed: a call of update on an enabled system processes every
\* animal that is in animals when it starts exactly once, also when another
\* animal exceeds its maxAge and is removed in the same call; and aging
\* removes exactly the animals whose age then exceeds maxAge.
C28_Original ==
    [][(called'.op = "update" /\ called'.result # "disabled") =>
           /\ called'.processed = [i \in 1..Len(animals) |-> animals[i].id]
           /\ called'.aged =
                  {animals[i].id : i \in {j \in 1..Len(animals) :
                                            animals[j].age + 1 > lifespan}}]_vars

\* the puddle of ps whose id is id
PuddleOf(ps, id) == ps[CHOOSE i \in 1..Len(ps) : ps[i].id = id]

\* what C29 says of a step that changes the puddles
EvaporationStep ==
    \A i \in 1..Len(puddles) :
        LET before == puddles[i]
            after  == PuddleOf(puddles', before.id)
            dry    == rainIntensity' < 10
        IN  IF before.id \in Ids(puddles')
            THEN /\ after.evaporating = (before.evaporating \/ dry)
                 /\ after.lifetime =
                        before.lifetime - (IF after.evaporating THEN 1 ELSE 0)
                 /\ after.lifetime > 0
                 /\ before.id \in puddleMeshes'
            ELSE /\ before.evaporating \/ dry
                 /\ before.evaporating => before.steps + 1 = puddleLifetime
                 /\ ~before.evaporating => puddleLifetime = 1
                 /\ before.id \notin puddleMeshes'

\* C29: once the evaporating flag of a puddle is true (a step of
\* updatePuddles with rainIntensity < 0.1) it is never false again, its
\* lifetime goes down by exactly 1 in each step of updatePuddles, and the
\* puddle leaves both puddles and the scene after exactly puddleLifetime
\* such steps, whatever the weather does later; a puddle that is not
\* evaporating is never removed, and the removal of a puddle in a step
\* makes the step skip no other puddle.
C29_EvaporationRunsToTheEnd ==
    /\ [](puddleMeshes = Ids(puddles))
    /\ [](\A i \in 1..Len(puddles) :
              /\ puddles[i].evaporating =>
                    puddles[i].lifetime = puddleLifetime - puddles[i].steps
              /\ ~puddles[i].evaporating =>
                    puddles[i].lifetime = puddleLifetime)
    /\ [][(puddles' # puddles) => EvaporationStep]_vars

\* it rains again on a puddle that is one step from gone, next to a puddle
\* made in the new rain, which does not evaporate
C29_Witness ==
    /\ rainIntensity > 20
    /\ targetRainIntensity > 20
    /\ Len(puddles) = 2
    /\ puddles[1].evaporating
    /\ puddles[1].lifetime = 1
    /\ puddles[1].steps = puddleLifetime - 1
    /\ ~puddles[2].evaporating
    /\ puddleMeshes = {puddles[1].id, puddles[2].id}

=============================================================================
